---------------------------- MODULE Spec2Model ----------------------------
(***************************************************************************)
(* A model of the bus tracker: its two SIRI-VM feeds and its dashboard.    *)
(*                                                                         *)
(*   Spec      the live feed of src/api/main.py: POST /vehicle-position    *)
(*             upserts rows of the vehicle_positions table, GET /siri-vm   *)
(*             publishes the rows of the last five minutes.                *)
(*   SpecBods  the synthetic feed of src/bods-api/app: a fixed roster that *)
(*             every GET /vehicle-monitoring advances, filters and encodes,*)
(*             and GET /check-status.                                      *)
(*   SpecSessions  the dashboard's tracking sessions and the API's         *)
(*             DELETE /tracking-sessions/{session_id}.                     *)
(*   SpecFeeds the two feeds running side by side.                         *)
(*   SpecRoster      the synthetic roster advanced by direct calls.        *)
(*   SpecConcurrent  two requests advancing the roster, statement by       *)
(*             statement in any interleaving.                              *)
(*   SpecDashboard   start_tracking and stop_tracking served concurrently, *)
(*             query by query, and the admin's end_sessions.               *)
(*   SpecTracking    update_position and get_vehicles of the dashboard.    *)
(*   SpecCleanup     the cleanup_tracks management command.                *)
(*                                                                         *)
(* Python's None is the empty tuple and a set value v is <<v>>, so that a  *)
(* nullable field never mixes types.  Times of the live feed and of the    *)
(* dashboard are whole minutes; a time of the synthetic feed is a second   *)
(* and its microsecond.                                                    *)
(***************************************************************************)
EXTENDS Integers, Sequences, FiniteSets, TLC

VARIABLES
    now,                \* live feed: the wall clock / the database's NOW(), in minutes
    vehicle_positions,  \* live feed: the rows of table vehicle_positions
    request,            \* the request served by the last step and what its I/O met
    response,           \* the answer to that request
    utcnow,             \* synthetic feed: datetime.utcnow(), in seconds
    vehicles,           \* synthetic feed: VehicleDataGenerator.vehicles, the roster
    snapshot,           \* synthetic feed: the list get_vehicle_data returned last
    calls,              \* synthetic feed: how many times get_vehicle_data has run
    tracking_sessions,  \* dashboard: the rows of table tracking_sessions
    tracking_sessions_id_seq,   \* dashboard: the last id that table has issued
    SERVICE_START_TIME, \* synthetic feed: the module's SERVICE_START_TIME
    heap,               \* synthetic feed: the dicts the generator holds, by identity
    threads,            \* the requests being served statement by statement
    django_session      \* dashboard: request.session of each user

vars == <<now, vehicle_positions, request, response, utcnow, vehicles, snapshot, calls,
          tracking_sessions, tracking_sessions_id_seq, SERVICE_START_TIME,
          heap, threads, django_session>>

-----------------------------------------------------------------------------
(* Bounds of the model. *)

MaxTime == 6            \* the live clock runs over 0..MaxTime minutes
MaxRows == 2            \* rows the vehicle_positions table may hold
MaxSeconds == 1         \* the synthetic feed's clock runs over 0..MaxSeconds
MaxCalls == 2           \* calls of the roster's get_vehicle_data
MaxSessions == 2        \* tracking sessions the dashboard may create
MaxAdvances == 10       \* direct calls of get_vehicle_data in SpecRoster
MaxMinutes == 2         \* SpecDashboard's clock runs over 0..MaxMinutes
MaxShared == 3          \* roster entries that SpecConcurrent's requests share

(* Program constants. *)

FRESHNESS_MINUTES == 5  \* INTERVAL '5 minutes'
TRACK_VALID_MINUTES == 5 \* update_position: timedelta(minutes=5)
VALID_SECONDS == 30     \* timedelta(seconds=30)
FIRST_FLEET_NUMBER == 1000  \* f'MIDL_{1000 + i}'
BLOCKS == 3             \* f'BLOCK_{i % 3 + 1}'
FULL_TURN == 36000      \* % 360, in hundredths of a degree
NumVehicles == 10       \* range(10): the vehicles of the synthetic roster
BEARING_DRIFT == 1000   \* random.uniform(-10, 10), in hundredths of a degree
MAP_WINDOW_MINUTES == 10    \* get_vehicles: timedelta(minutes=10)
MINUTES_PER_DAY == 1440 \* cleanup_tracks: timedelta(days=days)

-----------------------------------------------------------------------------
(* Python values. *)

None == <<>>
Some(v) == <<v>>
Get(d, k) == IF k \in DOMAIN d THEN d[k] ELSE None       \* dict.get(k)
TruthyStr(o) == o /= None /\ o[1] /= ""                   \* `if s:` for Optional[str]
TruthyNum(o) == o /= None /\ o[1] /= 0                    \* `if x:` for Optional[float]
TruthyTime(o) == o /= None                                \* `if dt:` for Optional[datetime]

Min(a, b) == IF a <= b THEN a ELSE b
Max(a, b) == IF a >= b THEN a ELSE b

(* Text nodes.  A datetime or a float is written by a conversion; the text  *)
(* keeps the conversion that produced it beside the value it was given.     *)
\* datetime.isoformat() of an aware datetime: the microsecond in six digits
\* (none when it is 0) and the UTC offset, as in 2024-01-01T08:00:00.123456+00:00.
isoformat(t) ==
    [format |-> "isoformat", instant |-> t, fraction_digits |-> 6, zone |-> "+00:00"]
str_float(x) == [format |-> "str(float)", value |-> x]

\* A naive datetime of the synthetic feed: whole seconds and the microsecond.
datetime(sec, micro) == [sec |-> sec, micro |-> micro]

\* dt.strftime('%Y-%m-%dT%H:%M:%S.%f')[:-3] + 'Z': the last three of the six
\* fractional digits are cut off.
format_datetime(dt) ==
    [format |-> "%Y-%m-%dT%H:%M:%S.mmmZ", sec |-> dt.sec, milli |-> dt.micro \div 1000,
     fraction_digits |-> 3, zone |-> "Z"]

NoExchange == [op |-> "none"]
NoResponse == [status |-> 0, detail |-> "", doc |-> None]

\* raise HTTPException(status_code=..., detail=...)
HTTPException(status_code, detail) ==
    [status |-> status_code, detail |-> detail, doc |-> None]

\* The server is between two exchanges.
Idle == request.op = "none"

\* The answer has gone out: the exchange is over.
Reply ==
    /\ ~Idle
    /\ request' = NoExchange
    /\ response' = NoResponse
    /\ UNCHANGED <<now, vehicle_positions, utcnow, vehicles, snapshot, calls,
                 tracking_sessions, tracking_sessions_id_seq, SERVICE_START_TIME,
                   heap, threads, django_session>>

-----------------------------------------------------------------------------
(* The vehicle_positions table. *)

\* Columns that the INSERT names, in its order.
InsertColumns ==
    {"vehicle_ref", "line_ref", "direction_ref", "published_line_name",
     "operator_ref", "origin_ref", "origin_name", "destination_ref",
     "destination_name", "longitude", "latitude", "bearing", "velocity",
     "occupancy", "block_ref", "vehicle_journey_ref", "recorded_at_time",
     "valid_until_time"}

\* Parameters read with data[...]: a missing key raises KeyError.
RequiredKeys == InsertColumns \ {"destination_name", "velocity", "occupancy"}

\* Columns declared without null=True; bearing is nullable since migration 0003.
NotNullColumns == InsertColumns \ {"destination_name", "bearing", "velocity", "occupancy"}

\* unique_together = ['vehicle_ref', 'recorded_at_time']
SameKey(r, s) ==
    r.vehicle_ref = s.vehicle_ref /\ r.recorded_at_time = s.recorded_at_time


\* The row an INSERT of `data` proposes (EXCLUDED).  Columns the statement does
\* not name take their default, NULL.
ExcludedRow(data) ==
    [vehicle_ref |-> data.vehicle_ref[1],
     line_ref |-> data.line_ref[1],
     direction_ref |-> data.direction_ref[1],
     published_line_name |-> data.published_line_name[1],
     operator_ref |-> data.operator_ref[1],
     origin_ref |-> data.origin_ref[1],
     origin_name |-> data.origin_name[1],
     destination_ref |-> data.destination_ref[1],
     destination_name |-> Get(data, "destination_name"),
     longitude |-> data.longitude[1],
     latitude |-> data.latitude[1],
     bearing |-> data.bearing,
     velocity |-> Get(data, "velocity"),
     occupancy |-> Get(data, "occupancy"),
     block_ref |-> data.block_ref[1],
     vehicle_journey_ref |-> data.vehicle_journey_ref[1],
     recorded_at_time |-> data.recorded_at_time[1],
     valid_until_time |-> data.valid_until_time[1],
     origin_aimed_departure_time |-> None,
     destination_aimed_arrival_time |-> None,
     item_identifier |-> None]

\* ON CONFLICT (vehicle_ref, recorded_at_time) DO UPDATE SET ...
OnConflictOverwriteAll(old, excluded) == excluded

OnConflictUpdate(old, excluded) ==
    [old EXCEPT !.longitude = excluded.longitude,
                !.latitude = excluded.latitude,
                !.bearing = excluded.bearing,
                !.velocity = excluded.velocity,
                !.occupancy = excluded.occupancy,
                !.valid_until_time = excluded.valid_until_time]

\* INSERT ... ON CONFLICT ... DO UPDATE on `table`.
Upsert(table, excluded) ==
    IF \E old \in table : SameKey(old, excluded)
    THEN {IF SameKey(old, excluded) THEN OnConflictUpdate(old, excluded) ELSE old :
             old \in table}
    ELSE table \cup {excluded}

\* store_vehicle_position(data): what it raises ("" when it returns) and the
\* table it leaves.  dbOk: get_db_connection() and execute() reach the database.
store_vehicle_position(table, data, dbOk) ==
    IF ~dbOk
    THEN [raised |-> "OperationalError", table |-> table]
    ELSE IF \E k \in RequiredKeys : k \notin DOMAIN data
    THEN [raised |-> "KeyError", table |-> table]
    ELSE IF \E k \in NotNullColumns : data[k] = None
    THEN [raised |-> "IntegrityError", table |-> table]
    ELSE [raised |-> "", table |-> Upsert(table, ExcludedRow(data))]

\* What submit_vehicle_position answers when store_vehicle_position ended as
\* `out`: the success body, or the exception's text behind a fixed prefix.
submit_vehicle_position_response(out) ==
    IF out.raised = ""
    THEN [status |-> 200, detail |-> "Vehicle position stored", doc |-> None]
    ELSE HTTPException(500, "Error storing vehicle position: " \o out.raised)

\* POST /vehicle-position
submit_vehicle_position(data, dbOk) ==
    LET out == store_vehicle_position(vehicle_positions, data, dbOk) IN
    /\ Idle
    /\ Cardinality(out.table) <= MaxRows
    /\ vehicle_positions' = out.table
    /\ request' = [op |-> "POST /vehicle-position", data |-> data, dbOk |-> dbOk,
                   at |-> now]
    /\ response' = submit_vehicle_position_response(out)
    /\ UNCHANGED <<now, utcnow, vehicles, snapshot, calls,
                 tracking_sessions, tracking_sessions_id_seq, SERVICE_START_TIME,
                   heap, threads, django_session>>

-----------------------------------------------------------------------------
(* GET /siri-vm *)

\* The WHERE clause written with >= for >.
FreshRowsInclusive(table, t) ==
    {r \in table : r.recorded_at_time >= t - FRESHNESS_MINUTES}

\* The rows of WHERE recorded_at_time > NOW() - INTERVAL '5 minutes'.
FreshRows(table, t) ==
    {r \in table : r.recorded_at_time > t - FRESHNESS_MINUTES}

\* Every listing of `rows` that ORDER BY recorded_at_time DESC allows: rows of
\* equal recorded_at_time come in either order.
RECURSIVE OrderByRecordedDesc(_)
OrderByRecordedDesc(rows) ==
    IF rows = {} THEN {<<>>}
    ELSE UNION {{<<r>> \o rest : rest \in OrderByRecordedDesc(rows \ {r})} :
                  r \in {x \in rows :
                           \A y \in rows : y.recorded_at_time <= x.recorded_at_time}}

\* get_vehicle_data() with the failure re-raised instead of swallowed.
get_vehicle_data_raising(table, t, dbOk) ==
    IF dbOk
    THEN {[raised |-> "", rows |-> l] : l \in OrderByRecordedDesc(FreshRows(table, t))}
    ELSE {[raised |-> "OperationalError", rows |-> <<>>]}

\* get_vehicle_data(): the outcomes of one call at database time t.  A failure
\* to connect or to query is caught and answered with the empty list.
get_vehicle_data(table, t, dbOk) ==
    IF dbOk
    THEN {[raised |-> "", rows |-> l] : l \in OrderByRecordedDesc(FreshRows(table, t))}
    ELSE {[raised |-> "", rows |-> <<>>]}

\* VehicleActivity(...) / MonitoredVehicleJourney(...): pydantic refuses None
\* for a field declared without Optional.  Of the columns read here only
\* bearing can be NULL.
PydanticAccepts(vehicle) == vehicle.bearing /= None

\* One <VehicleActivity> of create_siri_xml.  An optional child that is not
\* emitted is None.
live_vehicle_activity(vehicle) ==
    [RecordedAtTime |-> isoformat(vehicle.recorded_at_time),
     ValidUntilTime |-> isoformat(vehicle.valid_until_time),
     ItemIdentifier |-> IF TruthyStr(vehicle.item_identifier)
                        THEN vehicle.item_identifier ELSE None,
     MonitoredVehicleJourney |->
       [LineRef |-> vehicle.line_ref,
        DirectionRef |-> vehicle.direction_ref,
        PublishedLineName |-> vehicle.published_line_name,
        OperatorRef |-> vehicle.operator_ref,
        OriginRef |-> vehicle.origin_ref,
        OriginName |-> vehicle.origin_name,
        DestinationRef |-> vehicle.destination_ref,
        DestinationName |-> IF TruthyStr(vehicle.destination_name)
                            THEN vehicle.destination_name ELSE None,
        OriginAimedDepartureTime |->
            IF TruthyTime(vehicle.origin_aimed_departure_time)
            THEN Some(isoformat(vehicle.origin_aimed_departure_time[1])) ELSE None,
        DestinationAimedArrivalTime |->
            IF TruthyTime(vehicle.destination_aimed_arrival_time)
            THEN Some(isoformat(vehicle.destination_aimed_arrival_time[1])) ELSE None,
        VehicleLocation |-> [Longitude |-> str_float(vehicle.longitude),
                             Latitude |-> str_float(vehicle.latitude)],
        Bearing |-> str_float(vehicle.bearing[1]),
        Velocity |-> IF TruthyNum(vehicle.velocity)
                     THEN Some(str_float(vehicle.velocity[1])) ELSE None,
        Occupancy |-> IF TruthyStr(vehicle.occupancy) THEN vehicle.occupancy ELSE None,
        BlockRef |-> vehicle.block_ref,
        VehicleJourneyRef |-> vehicle.vehicle_journey_ref,
        VehicleRef |-> vehicle.vehicle_ref]]

\* create_siri_xml(ServiceDelivery(...)): the document, as its element tree.
\* t1 and t2 are the two datetime.now() readings of the handler.
create_siri_xml(rows, t1, t2) ==
    [root |-> "Siri",
     version |-> "2.0",
     ServiceDelivery |->
       [ResponseTimestamp |-> isoformat(t1),
        ProducerRef |-> "TICKETER_TRACKER",
        VehicleMonitoringDelivery |->
          [ResponseTimestamp |-> isoformat(t2),
           ProducerRef |-> None,
           ValidUntilTime |-> None,
           VehicleActivity |->
             [i \in 1..Len(rows) |-> live_vehicle_activity(rows[i])]]]]

\* GET /siri-vm.  The query runs at NOW() = now; the clock may have moved on by
\* `late` minutes when the handler stamps the document.
get_vehicle_monitoring(dbOk, late) ==
    /\ Idle
    /\ now + late <= MaxTime
    /\ \E out \in get_vehicle_data(vehicle_positions, now, dbOk) :
         /\ request' = [op |-> "GET /siri-vm", dbOk |-> dbOk, at |-> now,
                        table |-> vehicle_positions, rows |-> out.rows]
         /\ response' =
              IF out.raised /= ""
              THEN HTTPException(500, "Error generating SIRI-VM data: " \o out.raised)
              ELSE IF \E i \in 1..Len(out.rows) : ~PydanticAccepts(out.rows[i])
              THEN HTTPException(500, "Error generating SIRI-VM data: ValidationError")
              ELSE [status |-> 200, detail |-> "",
                    doc |-> Some(create_siri_xml(out.rows, now + late, now + late))]
    /\ now' = now + late
    /\ UNCHANGED <<vehicle_positions, utcnow, vehicles, snapshot, calls,
                 tracking_sessions, tracking_sessions_id_seq, SERVICE_START_TIME,
                   heap, threads, django_session>>

\* Time passes.
Tick ==
    /\ Idle
    /\ now < MaxTime
    /\ now' = now + 1
    /\ UNCHANGED <<vehicle_positions, request, response, utcnow, vehicles, snapshot, calls,
                 tracking_sessions, tracking_sessions_id_seq, SERVICE_START_TIME,
                   heap, threads, django_session>>

-----------------------------------------------------------------------------
(* The reports the dashboard posts (src/dashboard/tracker/views.py). *)

GetOr(d, k, default) == IF k \in DOMAIN d THEN d[k] ELSE default   \* dict.get(k, default)

\* start_tracking: request.session['journey_config'] for the JSON body `data`.
journey_config(data) ==
    [line_ref |-> GetOr(data, "line_ref", Some("UNKNOWN")),
     direction_ref |-> GetOr(data, "direction_ref", Some("outbound")),
     operator_ref |-> GetOr(data, "operator_ref", Some("UNKNOWN")),
     block_ref |-> GetOr(data, "block_ref", Some("")),
     vehicle_journey_ref |->
        GetOr(data, "vehicle_journey_ref", Some("journey_" \o data.vehicle_ref[1])),
     origin_ref |-> GetOr(data, "origin_ref", Some("")),
     origin_name |-> GetOr(data, "origin_name", Some("")),
     destination_ref |-> GetOr(data, "destination_ref", Some("")),
     destination_name |-> GetOr(data, "destination_name", Some("")),
     occupancy |-> Get(data, "occupancy")]

\* update_position: api_data, the body it posts to /vehicle-position, for the
\* session's vehicle, the stored journey_config `jc`, the device's JSON body
\* `data` and the two timezone.now() readings t1 <= t2.
update_position_api_data(vehicle_ref, jc, data, t1, t2) ==
    [vehicle_ref |-> Some(vehicle_ref),
     line_ref |-> jc.line_ref,
     direction_ref |-> jc.direction_ref,
     published_line_name |-> jc.line_ref,
     operator_ref |-> jc.operator_ref,
     origin_ref |-> jc.origin_ref,
     origin_name |-> jc.origin_name,
     destination_ref |-> jc.destination_ref,
     destination_name |-> jc.destination_name,
     longitude |-> data.longitude,
     latitude |-> data.latitude,
     bearing |-> Get(data, "bearing"),
     velocity |-> IF TruthyNum(Get(data, "velocity")) THEN data.velocity ELSE None,
     occupancy |-> jc.occupancy,
     block_ref |-> jc.block_ref,
     vehicle_journey_ref |-> jc.vehicle_journey_ref,
     recorded_at_time |-> Some(t1),
     valid_until_time |-> Some(t2 + TRACK_VALID_MINUTES)]

-----------------------------------------------------------------------------
(* Inputs. *)

VehicleRefs == {"BUS_1", "BUS_2"}
RecordedTimes == {1, 2}     \* minutes at which the posted reports were recorded

\* Bodies of start_tracking: a fully configured journey, and the least the
\* view accepts (a vehicle_ref alone).
ConfiguredStart(v) ==
    [vehicle_ref |-> Some(v), line_ref |-> Some("45"),
     direction_ref |-> Some("inbound"), operator_ref |-> Some("MIDL"),
     block_ref |-> Some("BLOCK_1"),
     origin_ref |-> Some("430007001"), origin_name |-> Some("Walsall Bus Station"),
     destination_ref |-> Some("430003002"),
     destination_name |-> Some("Birmingham Moor Street"),
     occupancy |-> Some("seatsAvailable")]
MinimalStart(v) == [vehicle_ref |-> Some(v)]

\* Bodies of update_position: a moving device, a standing one, and one that
\* knows no heading.
MovingDevice == [longitude |-> Some(-2), latitude |-> Some(52),
                 bearing |-> Some(90), velocity |-> Some(12)]
StandingDevice == [longitude |-> Some(-1), latitude |-> Some(53),
                   bearing |-> Some(180), velocity |-> Some(0)]
BlindDevice == [longitude |-> Some(-1), latitude |-> Some(53), velocity |-> Some(0)]

ConfiguredReport(v, t) ==
    update_position_api_data(v, journey_config(ConfiguredStart(v)), MovingDevice, t, t)

\* What the dashboard posts for a session tracked at minute t.
DashboardReports ==
    {ConfiguredReport(v, t) : v \in VehicleRefs, t \in RecordedTimes}
    \cup
    {update_position_api_data("BUS_1", journey_config(MinimalStart("BUS_1")),
                              StandingDevice, t, t) : t \in RecordedTimes}
    \cup
    {update_position_api_data("BUS_1", journey_config(MinimalStart("BUS_1")),
                              BlindDevice, 1, 1)}

\* What any other client may post: a standing vehicle, with a validity that
\* ends before the report was recorded.
ForeignReports ==
    {[ConfiguredReport("BUS_2", t) EXCEPT !.valid_until_time = Some(t - 1),
                                          !.velocity = Some(0)] :
        t \in RecordedTimes}

\* Malformed reports: a required key is missing, or null.
Without(d, k) == [x \in DOMAIN d \ {k} |-> d[x]]
MalformedReports ==
    {Without(ConfiguredReport("BUS_1", 1), k) :
        k \in {"vehicle_ref", "longitude", "recorded_at_time"}}
    \cup {[ConfiguredReport("BUS_1", 1) EXCEPT !.line_ref = None]}

Reports == DashboardReports \cup ForeignReports \cup MalformedReports

-----------------------------------------------------------------------------
(* The live feed. *)

Init ==
    /\ now = 0
    /\ vehicle_positions = {}
    /\ request = NoExchange
    /\ response = NoResponse
    /\ utcnow = 0
    /\ vehicles = <<>>
    /\ snapshot = <<>>
    /\ calls = 0
    /\ tracking_sessions = {}
    /\ tracking_sessions_id_seq = 0
    /\ SERVICE_START_TIME = datetime(0, 0)
    /\ heap = <<>>
    /\ threads = <<>>
    /\ django_session = <<>>

Next ==
    \/ \E data \in Reports, dbOk \in BOOLEAN : submit_vehicle_position(data, dbOk)
    \/ \E dbOk \in BOOLEAN, late \in 0..1 : get_vehicle_monitoring(dbOk, late)
    \/ Tick
    \/ Reply

Spec == Init /\ [][Next]_vars

-----------------------------------------------------------------------------
(* Reading the last exchange. *)

LiveFeedServed == request.op = "GET /siri-vm"
LiveFeedDelivered == LiveFeedServed /\ response.status = 200 /\ response.doc /= None
PositionPosted == request.op = "POST /vehicle-position"

\* The <VehicleActivity> elements of the delivered document.
Activities ==
    IF response.doc = None THEN <<>>
    ELSE response.doc[1].ServiceDelivery.VehicleMonitoringDelivery.VehicleActivity

ActivityOf(a, row) ==
    /\ a.MonitoredVehicleJourney.VehicleRef = row.vehicle_ref
    /\ a.RecordedAtTime.instant = row.recorded_at_time

\* The rows the request's query selected.
SelectedRows == FreshRows(request.table, request.at)

-----------------------------------------------------------------------------
(* C1: in a delivered live document two stored rows of one vehicle_ref       *)
(* collapse to exactly one VehicleActivity, that of the row with the latest  *)
(* recorded_at_time.                                                         *)
C1_OneActivityPerVehicle ==
    LiveFeedDelivered =>
        \A r \in SelectedRows :
            LET mine == {i \in 1..Len(Activities) :
                           Activities[i].MonitoredVehicleJourney.VehicleRef = r.vehicle_ref}
                latest == CHOOSE x \in SelectedRows :
                            /\ x.vehicle_ref = r.vehicle_ref
                            /\ \A y \in SelectedRows :
                                 y.vehicle_ref = r.vehicle_ref
                                    => y.recorded_at_time <= x.recorded_at_time
            IN  /\ Cardinality(mine) <= 1
                /\ request.dbOk => Cardinality(mine) = 1
                /\ \A i \in mine : ActivityOf(Activities[i], latest)

(* C2: a stored row whose valid_until_time is earlier than the request time  *)
(* has no VehicleActivity in the document of that request.                   *)
C2_NoExpiredActivity ==
    LiveFeedDelivered =>
        \A r \in request.table :
            r.valid_until_time < request.at
               => ~\E i \in 1..Len(Activities) : ActivityOf(Activities[i], r)

(* C6: when the repository is unreachable, GET /siri-vm answers 200 with a   *)
(* well-formed document (root, envelope, delivery) that holds no             *)
(* VehicleActivity, never a 500.                                             *)
C6_UnreachableFeedIsEmpty ==
    (LiveFeedServed /\ ~request.dbOk) =>
        /\ response.status = 200
        /\ response.doc /= None
        /\ response.doc[1].root = "Siri"
        /\ response.doc[1].ServiceDelivery.ProducerRef /= ""
        /\ response.doc[1].ServiceDelivery.ResponseTimestamp.instant >= request.at
        /\ response.doc[1].ServiceDelivery.VehicleMonitoringDelivery
             .ResponseTimestamp.instant >= request.at
        /\ Len(Activities) = 0

\* The repository failed while the table held rows the query would select.
C6_Witness ==
    /\ LiveFeedServed /\ ~request.dbOk
    /\ SelectedRows /= {}
    /\ response.status = 200 /\ Len(Activities) = 0

(* C7: no delivered document holds an empty required element; a row with a   *)
(* missing or empty required field makes the request fail instead.           *)
RequiredTexts(a) ==
    LET j == a.MonitoredVehicleJourney
    IN  {j.LineRef, j.DirectionRef, j.OperatorRef, j.OriginRef, j.OriginName,
         j.DestinationRef, j.BlockRef, j.VehicleJourneyRef, j.VehicleRef}

C7_NoEmptyRequiredElement ==
    /\ LiveFeedDelivered =>
         \A i \in 1..Len(Activities) : "" \notin RequiredTexts(Activities[i])
    /\ (LiveFeedServed /\ request.dbOk
          /\ \E r \in SelectedRows :
                \/ r.bearing = None
                \/ "" \in {r.line_ref, r.direction_ref, r.operator_ref, r.origin_ref,
                           r.origin_name, r.destination_ref, r.block_ref,
                           r.vehicle_journey_ref, r.vehicle_ref})
         => response.status = 500

(* C8: every VehicleActivity of a delivered document has                     *)
(* RecordedAtTime <= ValidUntilTime.                                         *)
C8_RecordedBeforeValidUntil ==
    LiveFeedDelivered =>
        \A i \in 1..Len(Activities) :
            Activities[i].RecordedAtTime.instant <= Activities[i].ValidUntilTime.instant

(* C9: the table holds at most one row per (vehicle_ref, recorded_at_time);  *)
(* a stored report whose key exists overwrites exactly longitude, latitude,  *)
(* bearing, velocity, occupancy and valid_until_time of that row with its    *)
(* own values, leaves the row's other columns and all other rows as they     *)
(* were, and adds no row.                                                    *)
MutableColumns ==
    {"longitude", "latitude", "bearing", "velocity", "occupancy", "valid_until_time"}

KeyOf(data, r) ==
    /\ r.vehicle_ref = data.vehicle_ref[1]
    /\ r.recorded_at_time = data.recorded_at_time[1]

C9_UpsertFrame ==
    [][(request'.op = "POST /vehicle-position" /\ response'.status = 200) =>
         LET data == request'.data IN
         /\ \A r, s \in vehicle_positions' : SameKey(r, s) => r = s
         /\ (\E old \in vehicle_positions : KeyOf(data, old)) =>
              \E old \in vehicle_positions, new \in vehicle_positions' :
                 /\ KeyOf(data, old) /\ KeyOf(data, new)
                 /\ new.longitude = data.longitude[1]
                 /\ new.latitude = data.latitude[1]
                 /\ new.bearing = data.bearing
                 /\ new.velocity = Get(data, "velocity")
                 /\ new.occupancy = Get(data, "occupancy")
                 /\ new.valid_until_time = data.valid_until_time[1]
                 /\ \A c \in DOMAIN old \ MutableColumns : new[c] = old[c]
                 /\ vehicle_positions' \ {new} = vehicle_positions \ {old}
                 /\ Cardinality(vehicle_positions') = Cardinality(vehicle_positions)
      ]_vars

\* A row that keeps the configured journey it was inserted with and carries the
\* position of a later report of another journey: an overwrite has happened.
C9_Witness ==
    /\ PositionPosted /\ response.status = 200
    /\ request.data.line_ref = Some("UNKNOWN")
    /\ \E r \in vehicle_positions :
          /\ KeyOf(request.data, r)
          /\ r.line_ref = "45" /\ r.origin_ref = "430007001"
          /\ r.longitude = -1 /\ r.velocity = None /\ r.occupancy = None

(* C10: a report that lacks a required field is rejected with status 400 and *)
(* leaves the table unchanged.                                               *)
Malformed(data) == \E k \in RequiredKeys : k \notin DOMAIN data

C10_MalformedRejectedWith400 ==
    [][(request'.op = "POST /vehicle-position" /\ Malformed(request'.data)) =>
          (response'.status = 400 /\ vehicle_positions' = vehicle_positions)]_vars

(* C13: an optional element is emitted exactly when the field is set (a     *)
(* string that is given and not empty, a number or a time that is not null)  *)
(* and never as an empty element; a velocity of 0 has its Velocity element.  *)
OptionalsFollowState(a, v, item_identifier) ==
    LET j == a.MonitoredVehicleJourney IN
    /\ (j.DestinationName /= None) = TruthyStr(v.destination_name)
    /\ (j.OriginAimedDepartureTime /= None) = (v.origin_aimed_departure_time /= None)
    /\ (j.DestinationAimedArrivalTime /= None) = (v.destination_aimed_arrival_time /= None)
    /\ (j.Velocity /= None) = (v.velocity /= None)
    /\ (j.Occupancy /= None) = TruthyStr(v.occupancy)
    /\ (a.ItemIdentifier /= None) = TruthyStr(item_identifier)
    /\ Some("") \notin {j.DestinationName, j.Occupancy, a.ItemIdentifier}

C13_OptionalElementsFollowState ==
    LiveFeedDelivered =>
        /\ Len(Activities) = Len(request.rows)
        /\ \A i \in 1..Len(Activities) :
              OptionalsFollowState(Activities[i], request.rows[i],
                                   request.rows[i].item_identifier)

(* C14: every delivered document, with or without vehicles, has a           *)
(* VehicleMonitoringDelivery with its own ResponseTimestamp, ProducerRef and *)
(* ValidUntilTime, inside a ServiceDelivery with ResponseTimestamp and       *)
(* ProducerRef.                                                              *)
C14_DeliveryCarriesItsEnvelope ==
    (response.status = 200 /\ response.doc /= None /\ request.op /= "GET /check-status") =>
        LET sd == response.doc[1].ServiceDelivery
            vmd == sd.VehicleMonitoringDelivery
        IN  /\ sd.ResponseTimestamp.format /= ""
            /\ sd.ProducerRef /= ""
            /\ vmd.ResponseTimestamp.format /= ""
            /\ vmd.ProducerRef /= None /\ vmd.ProducerRef /= Some("")
            /\ vmd.ValidUntilTime /= None

(* C12: a 500 answer has a body that does not depend on the failure: when   *)
(* the position endpoint answers 500, every other request that fails on the  *)
(* same table, with whatever exception, gets the identical body.             *)
C12_GenericErrorBody ==
    (PositionPosted /\ response.status = 500) =>
        \A data \in Reports, dbOk \in BOOLEAN :
           LET out == store_vehicle_position(vehicle_positions, data, dbOk)
           IN  out.raised /= "" => submit_vehicle_position_response(out) = response

-----------------------------------------------------------------------------
(* Tracking sessions: the dashboard opens and closes them                    *)
(* (src/dashboard/tracker/views.py), the API deletes them with their         *)
(* positions (src/api/main.py).                                              *)

Users == {"driver"}

\* TrackingSession.objects.filter(user=user, is_active=True)
ActiveSessions(sessions, user) ==
    {x \in sessions : x.user = user /\ x.is_active}

\* JsonResponse({...}, status=...)
JsonResponse(status, detail) == [status |-> status, detail |-> detail, doc |-> None]

\* The update that clears is_active and leaves end_time as it was.
update_ended_flag_only(sessions, chosen, t) ==
    {IF x \in chosen /\ x.is_active THEN [x EXCEPT !.is_active = FALSE] ELSE x :
        x \in sessions}

\* queryset.filter(is_active=True).update(is_active=False, end_time=t), for
\* the queryset `chosen`: the table it leaves.
update_ended(sessions, chosen, t) ==
    {IF x \in chosen /\ x.is_active
     THEN [x EXCEPT !.is_active = FALSE, !.end_time = Some(t)]
     ELSE x : x \in sessions}

\* TrackingSession.end_session() at time t: the instance it saves.
end_session(self, t) == [self EXCEPT !.end_time = Some(t), !.is_active = FALSE]

\* start_tracking: the view, for the JSON body `data` of `user`, served with
\* no other request in between.
start_tracking(user, data) ==
    LET vehicle_ref == Get(data, "vehicle_ref")
        line_ref == GetOr(data, "line_ref", Some("UNKNOWN"))
        ended == update_ended(tracking_sessions,
                              ActiveSessions(tracking_sessions, user), now)
        session == [id |-> tracking_sessions_id_seq + 1, user |-> user,
                    vehicle_ref |-> vehicle_ref[1], start_time |-> now,
                    end_time |-> None, is_active |-> TRUE]
    IN  /\ Idle
        /\ tracking_sessions_id_seq < MaxSessions
        /\ request' = [op |-> "POST /start-tracking", data |-> data, at |-> now]
        /\ IF ~TruthyStr(vehicle_ref)
           THEN /\ response' = JsonResponse(400, "Vehicle reference required")
                /\ UNCHANGED <<tracking_sessions, tracking_sessions_id_seq,
                               django_session>>
           ELSE IF ~TruthyStr(line_ref)
           THEN /\ response' = JsonResponse(400, "Line reference required")
                /\ UNCHANGED <<tracking_sessions, tracking_sessions_id_seq,
                               django_session>>
           ELSE /\ response' = JsonResponse(200, "Started tracking")
                /\ tracking_sessions' = ended \cup {session}
                /\ tracking_sessions_id_seq' = tracking_sessions_id_seq + 1
                /\ django_session' = (user :> journey_config(data)) @@ django_session
        /\ UNCHANGED <<now, vehicle_positions, utcnow, vehicles, snapshot, calls,
                       SERVICE_START_TIME, heap, threads>>

\* stop_tracking: the view; TrackingSession.end_session() on the user's
\* first active session.
stop_tracking(user) ==
    /\ Idle
    /\ request' = [op |-> "POST /stop-tracking", user |-> user, at |-> now]
    /\ IF ActiveSessions(tracking_sessions, user) = {}
       THEN /\ response' = JsonResponse(400, "No active tracking session")
            /\ UNCHANGED tracking_sessions
       ELSE \E session \in ActiveSessions(tracking_sessions, user) :
            /\ \A x \in ActiveSessions(tracking_sessions, user) : session.id <= x.id
            /\ response' = JsonResponse(200, "Stopped tracking")
            /\ tracking_sessions' =
                 (tracking_sessions \ {session}) \cup {end_session(session, now)}
    /\ UNCHANGED <<now, vehicle_positions, utcnow, vehicles, snapshot, calls,
                   tracking_sessions_id_seq, SERVICE_START_TIME,
                   heap, threads, django_session>>

\* DELETE FROM vehicle_positions WHERE vehicle_ref = %s
\*    AND recorded_at_time BETWEEN %s AND %s
SessionPositions(table, session, t) ==
    {r \in table :
        /\ r.vehicle_ref = session.vehicle_ref
        /\ session.start_time <= r.recorded_at_time
        /\ r.recorded_at_time <=
              (IF session.end_time /= None THEN session.end_time[1] ELSE t)}

\* The body of delete_tracking_session's try: what it raises ("" when it
\* returns) and the two tables it leaves.  HTTPException is an Exception.
delete_session_try(sessions, positions, session_id, t, dbOk) ==
    LET found == {x \in sessions : x.id = session_id} IN
    IF ~dbOk
    THEN [raised |-> "OperationalError", sessions |-> sessions, positions |-> positions]
    ELSE IF found = {}
    THEN [raised |-> "404: Session not found", sessions |-> sessions,
          positions |-> positions]
    ELSE LET session == CHOOSE x \in found : TRUE IN
         [raised |-> "", sessions |-> sessions \ found,
          positions |-> positions \ SessionPositions(positions, session, t)]

\* DELETE /tracking-sessions/{session_id}: `except Exception as e` answers
\* whatever the try raised with a 500.
delete_tracking_session(session_id, dbOk) ==
    LET out == delete_session_try(tracking_sessions, vehicle_positions,
                                  session_id, now, dbOk) IN
    /\ Idle
    /\ request' = [op |-> "DELETE /tracking-sessions", session_id |-> session_id,
                   dbOk |-> dbOk, at |-> now]
    /\ response' =
         IF out.raised = ""
         THEN [status |-> 200, detail |-> "success", doc |-> None]
         ELSE HTTPException(500, "Error deleting session: " \o out.raised)
    /\ tracking_sessions' = out.sessions
    /\ vehicle_positions' = out.positions
    /\ UNCHANGED <<now, utcnow, vehicles, snapshot, calls,
                   tracking_sessions_id_seq, SERVICE_START_TIME,
                   heap, threads, django_session>>

\* Bodies of start_tracking, and the positions posted while sessions run.
StartBodies ==
    {MinimalStart(v) : v \in VehicleRefs} \cup {[line_ref |-> Some("45")]}
SessionReports == {ConfiguredReport("BUS_1", t) : t \in RecordedTimes}

NextSessions ==
    \/ \E user \in Users, data \in StartBodies : start_tracking(user, data)
    \/ \E user \in Users : stop_tracking(user)
    \/ \E data \in SessionReports : submit_vehicle_position(data, TRUE)
    \/ \E session_id \in 1..(MaxSessions + 1), dbOk \in BOOLEAN :
          delete_tracking_session(session_id, dbOk)
    \/ Tick
    \/ Reply

SpecSessions == Init /\ [][NextSessions]_vars

(* C11: DELETE /tracking-sessions/{session_id} for a session id that does    *)
(* not exist answers 404 and deletes no position and no session.             *)
C11_UnknownSessionAnswers404 ==
    [][(request'.op = "DELETE /tracking-sessions"
          /\ request'.dbOk
          /\ ~\E x \in tracking_sessions : x.id = request'.session_id)
        => /\ response'.status = 404
           /\ tracking_sessions' = tracking_sessions
           /\ vehicle_positions' = vehicle_positions]_vars

-----------------------------------------------------------------------------
(* The synthetic roster (src/bods-api/app/data_generator.py).  Degrees of     *)
(* latitude and longitude are counted in 0.0001, bearings in 0.01 degree,   *)
(* speeds in 0.01 m/s.                                                       *)

routes ==
    << [line_ref |-> "1", published_line_name |-> "1 - Birmingham to Dudley",
        direction_ref |-> "OUTBOUND", operator_ref |-> "MIDL",
        origin_ref |-> "430003002", origin_name |-> "Birmingham Moor Street",
        destination_ref |-> "430008001", destination_name |-> "Dudley Bus Station",
        origin_departure |-> "08:00", destination_arrival |-> "09:30"],
       [line_ref |-> "45", published_line_name |-> "45 - Walsall to Birmingham",
        direction_ref |-> "INBOUND", operator_ref |-> "MIDL",
        origin_ref |-> "430007001", origin_name |-> "Walsall Bus Station",
        destination_ref |-> "430003002", destination_name |-> "Birmingham Moor Street",
        origin_departure |-> "07:30", destination_arrival |-> "09:00"],
       [line_ref |-> "47", published_line_name |-> "47 - West Bromwich to Birmingham",
        direction_ref |-> "OUTBOUND", operator_ref |-> "MIDL",
        origin_ref |-> "430009001", origin_name |-> "West Bromwich Bus Station",
        destination_ref |-> "430003002", destination_name |-> "Birmingham Moor Street",
        origin_departure |-> "08:15", destination_arrival |-> "09:45"] >>

position_templates ==
    << [lat |-> 524786, lon |-> -18945, bearing |-> 4500],
       [lat |-> 524855, lon |-> -19020, bearing |-> 9000],
       [lat |-> 524920, lon |-> -19180, bearing |-> 13500],
       [lat |-> 525010, lon |-> -19350, bearing |-> 18000],
       [lat |-> 525100, lon |-> -19520, bearing |-> 22500],
       [lat |-> 525180, lon |-> -19700, bearing |-> 27000],
       [lat |-> 525250, lon |-> -19880, bearing |-> 31500] >>

\* The random module: its k-th draw among n outcomes, for one of a few seeds.
Seeds == 0..2
Draw(seed, k, n) == (1 + seed + k * (seed + 1)) % n
random_choice(seq, seed, k) == seq[1 + Draw(seed, k, Len(seq))]

\* The outcomes drawn for random.uniform(-0.001, 0.001), uniform(-10, 10) and
\* uniform(0, 25), and the list of random.choice for the occupancy.
PositionSteps == <<-10, 0, 10>>
BearingSteps == <<-BEARING_DRIFT, -4, BEARING_DRIFT>>
Velocities == <<0, 1250, 2500>>
Occupancies == <<Some("seatsAvailable"), Some("standingAvailable"), Some("full"), None>>

\* The dicts of self.routes and self.vehicle_positions are objects: a roster
\* entry holds a reference to one, never a value.  The heap maps each object's
\* identity to its contents; <<"copy", n>> is the dict that dict.copy() makes
\* for roster entry n.
route_object(i) == <<"route", i>>
template_object(i) == <<"template", i>>
copy_object(n) == <<"copy", n>>
RouteObjects == {route_object(i) : i \in 1..Len(routes)}
TemplateObjects == {template_object(i) : i \in 1..Len(position_templates)}

\* __init__: self.routes and self.vehicle_positions as first built.
generator_init ==
    [a \in RouteObjects \cup TemplateObjects |->
        IF a[1] = "route" THEN routes[a[2]] ELSE position_templates[a[2]]]

\* _generate_vehicles(): the roster built at construction, at time t.
generate_vehicles(seed, t) ==
    [n \in 1..NumVehicles |->
        LET i == n - 1 IN
        [vehicle_ref |-> "MIDL_" \o ToString(FIRST_FLEET_NUMBER + i),
         block_ref |-> "BLOCK_" \o ToString((i % BLOCKS) + 1),
         route |-> route_object(1 + Draw(seed, 2 * i, Len(routes))),
         position |-> template_object(1 + Draw(seed, 2 * i + 1, Len(position_templates))),
         last_update |-> t]]

\* round(x, 1) of a bearing.
round1(b) == ((b + 5) \div 10) * 10

\* datetime.strptime(time_str, '%H:%M').time(), in seconds after midnight.
strptime_HM(time_str) ==
    LET hm == ("07:30" :> <<7, 30>>) @@ ("08:00" :> <<8, 0>>) @@ ("08:15" :> <<8, 15>>)
              @@ ("09:00" :> <<9, 0>>) @@ ("09:30" :> <<9, 30>>) @@ ("09:45" :> <<9, 45>>)
    IN  hm[time_str][1] * 3600 + hm[time_str][2] * 60

\* _parse_time(time_str): today's date with the given time of day.
parse_time(time_str, t) ==
    datetime((t.sec \div 86400) * 86400 + strptime_HM(time_str), 0)

\* The updates of `position` with the bearing left as the sum, no % 360.
advance_position_unwrapped(position, n, seed) ==
    LET k == 5 * (n - 1) IN
    [lat |-> position.lat + random_choice(PositionSteps, seed, k),
     lon |-> position.lon + random_choice(PositionSteps, seed, k + 1),
     bearing |-> position.bearing + random_choice(BearingSteps, seed, k + 2)]

\* The three updates of the local dict `position` for roster entry n.
advance_position(position, n, seed) ==
    LET k == 5 * (n - 1) IN
    [lat |-> position.lat + random_choice(PositionSteps, seed, k),
     lon |-> position.lon + random_choice(PositionSteps, seed, k + 1),
     bearing |-> (position.bearing + random_choice(BearingSteps, seed, k + 2))
                    % FULL_TURN]

\* The loop body without .copy(): `position` is the entry's own dict, updated
\* where it is.
advance_vehicle_in_place(h, vehicle, n, seed, t) ==
    [heap |-> [h EXCEPT ![vehicle.position] =
                            advance_position(h[vehicle.position], n, seed)],
     vehicle |-> [vehicle EXCEPT !.last_update = t]]

\* The loop body of get_vehicle_data for roster entry n: the heap and the
\* entry it leaves.  `position` is a copy, a new object, and the entry is
\* pointed at it once it is complete.
advance_vehicle(h, vehicle, n, seed, t) ==
    LET position == copy_object(n) IN
    [heap |-> (position :> advance_position(h[vehicle.position], n, seed)) @@ h,
     vehicle |-> [vehicle EXCEPT !.last_update = t, !.position = position]]

\* ... and the VehicleData it appends, read from the heap and the entry the
\* loop body has left.
vehicle_data(h, vehicle, n, seed, t) ==
    LET k == 5 * (n - 1)
        position == h[vehicle.position]
        route == h[vehicle.route]
    IN  [vehicle_ref |-> vehicle.vehicle_ref,
         line_ref |-> route.line_ref,
         direction_ref |-> route.direction_ref,
         published_line_name |-> route.published_line_name,
         operator_ref |-> route.operator_ref,
         origin_ref |-> route.origin_ref,
         origin_name |-> route.origin_name,
         destination_ref |-> route.destination_ref,
         destination_name |-> Some(route.destination_name),
         origin_aimed_departure_time |-> Some(parse_time(route.origin_departure, t)),
         destination_aimed_arrival_time |-> Some(parse_time(route.destination_arrival, t)),
         latitude |-> position.lat,
         longitude |-> position.lon,
         bearing |-> round1(position.bearing),
         velocity |-> Some(random_choice(Velocities, seed, k + 3)),
         occupancy |-> random_choice(Occupancies, seed, k + 4),
         block_ref |-> vehicle.block_ref,
         vehicle_journey_ref |->
            "JOURNEY_" \o vehicle.vehicle_ref \o "_" \o ToString(t.sec \div 86400),
         recorded_at_time |-> t,
         valid_until_time |-> datetime(t.sec + VALID_SECONDS, t.micro)]

\* The loop putting each VehicleData in front of the list: data.insert(0, ...).
RECURSIVE get_vehicle_data_loop_prepending(_, _, _, _)
get_vehicle_data_loop_prepending(st, n, seed, t) ==
    IF n > Len(st.vehicles) THEN st
    ELSE LET moved == advance_vehicle(st.heap, st.vehicles[n], n, seed, t)
         IN  get_vehicle_data_loop_prepending(
                 [heap |-> moved.heap,
                  vehicles |-> [st.vehicles EXCEPT ![n] = moved.vehicle],
                  data |-> <<vehicle_data(moved.heap, moved.vehicle, n, seed, t)>>
                              \o st.data],
                 n + 1, seed, t)

\* `for vehicle in self.vehicles`, from roster entry n on: st holds the heap,
\* the roster and the list built so far.
RECURSIVE get_vehicle_data_loop(_, _, _, _)
get_vehicle_data_loop(st, n, seed, t) ==
    IF n > Len(st.vehicles) THEN st
    ELSE LET moved == advance_vehicle(st.heap, st.vehicles[n], n, seed, t)
         IN  get_vehicle_data_loop(
                 [heap |-> moved.heap,
                  vehicles |-> [st.vehicles EXCEPT ![n] = moved.vehicle],
                  data |-> Append(st.data,
                                  vehicle_data(moved.heap, moved.vehicle, n, seed, t))],
                 n + 1, seed, t)

\* VehicleDataGenerator.get_vehicle_data() at now = t: the heap and the roster
\* it leaves and the list it returns.
generator_get_vehicle_data(h, roster, seed, t) ==
    get_vehicle_data_loop([heap |-> h, vehicles |-> roster, data |-> <<>>], 1, seed, t)

-----------------------------------------------------------------------------
(* The synthetic feed's encoder (src/bods-api/app/xml_generator.py). *)

\* create_vehicle_activity_xml(vehicle, item_id)
create_vehicle_activity_xml(vehicle, item_id) ==
    [RecordedAtTime |-> format_datetime(vehicle.recorded_at_time),
     ValidUntilTime |-> format_datetime(vehicle.valid_until_time),
     ItemIdentifier |-> IF item_id /= "" THEN Some(item_id) ELSE None,
     MonitoredVehicleJourney |->
       [LineRef |-> vehicle.line_ref,
        DirectionRef |-> vehicle.direction_ref,
        PublishedLineName |-> vehicle.published_line_name,
        OperatorRef |-> vehicle.operator_ref,
        OriginRef |-> vehicle.origin_ref,
        OriginName |-> vehicle.origin_name,
        DestinationRef |-> vehicle.destination_ref,
        DestinationName |-> IF TruthyStr(vehicle.destination_name)
                            THEN vehicle.destination_name ELSE None,
        OriginAimedDepartureTime |->
            IF TruthyTime(vehicle.origin_aimed_departure_time)
            THEN Some(format_datetime(vehicle.origin_aimed_departure_time[1])) ELSE None,
        DestinationAimedArrivalTime |->
            IF TruthyTime(vehicle.destination_aimed_arrival_time)
            THEN Some(format_datetime(vehicle.destination_aimed_arrival_time[1])) ELSE None,
        VehicleLocation |-> [Longitude |-> str_float(vehicle.longitude),
                             Latitude |-> str_float(vehicle.latitude)],
        Bearing |-> str_float(vehicle.bearing),
        Velocity |-> IF vehicle.velocity /= None
                     THEN Some(str_float(vehicle.velocity[1])) ELSE None,
        Occupancy |-> IF TruthyStr(vehicle.occupancy) THEN vehicle.occupancy ELSE None,
        BlockRef |-> vehicle.block_ref,
        VehicleJourneyRef |-> vehicle.vehicle_journey_ref,
        VehicleRef |-> vehicle.vehicle_ref]]

\* The encoder with vmd.insert(0, vehicle_activity) for vmd.append(...): each
\* activity goes in front of the ones before it.
create_siri_vehicle_monitoring_response_prepending(vehicles_data, producer_ref, t) ==
    [root |-> "Siri",
     version |-> "2.0",
     ServiceDelivery |->
       [ResponseTimestamp |-> format_datetime(t),
        ProducerRef |-> producer_ref,
        VehicleMonitoringDelivery |->
          [ResponseTimestamp |-> format_datetime(t),
           ProducerRef |-> Some(producer_ref),
           ValidUntilTime |->
              Some(format_datetime(datetime(t.sec + VALID_SECONDS, t.micro))),
           VehicleActivity |->
             [i \in 1..Len(vehicles_data) |->
                LET k == Len(vehicles_data) + 1 - i IN
                create_vehicle_activity_xml(
                    vehicles_data[k],
                    "MIDL_" \o ToString(k) \o "_" \o ToString(t.sec))]]]]

\* create_siri_vehicle_monitoring_response(vehicles, producer_ref), every
\* datetime.utcnow() of it reading t.
create_siri_vehicle_monitoring_response(vehicles_data, producer_ref, t) ==
    [root |-> "Siri",
     version |-> "2.0",
     ServiceDelivery |->
       [ResponseTimestamp |-> format_datetime(t),
        ProducerRef |-> producer_ref,
        VehicleMonitoringDelivery |->
          [ResponseTimestamp |-> format_datetime(t),
           ProducerRef |-> Some(producer_ref),
           ValidUntilTime |->
              Some(format_datetime(datetime(t.sec + VALID_SECONDS, t.micro))),
           VehicleActivity |->
             [i \in 1..Len(vehicles_data) |->
                create_vehicle_activity_xml(
                    vehicles_data[i],
                    "MIDL_" \o ToString(i) \o "_" \o ToString(t.sec))]]]]

-----------------------------------------------------------------------------
(* GET /vehicle-monitoring (src/bods-api/app/main.py). *)

\* vehicles_data[:m]
SlicePrefix(l, m) ==
    IF m >= 0 THEN SubSeq(l, 1, Min(m, Len(l)))
    ELSE SubSeq(l, 1, Max(Len(l) + m, 0))

\* The filters of the handler with the OperatorRef test left out.
FilterVehiclesIgnoringOperator(vehicles_data, c) ==
    LET OnLine(v) == v.line_ref = c.LineRef[1]
        IsVehicle(v) == v.vehicle_ref = c.VehicleRef[1]
        l1 == IF TruthyStr(c.LineRef) THEN SelectSeq(vehicles_data, OnLine)
              ELSE vehicles_data
        l3 == IF TruthyStr(c.VehicleRef) THEN SelectSeq(l1, IsVehicle) ELSE l1
    IN  IF TruthyNum(c.MaximumNumberOfVehicles)
        THEN SlicePrefix(l3, c.MaximumNumberOfVehicles[1]) ELSE l3

\* "Apply filters if provided": the list the handler encodes, for the query
\* parameters c.
FilterVehicles(vehicles_data, c) ==
    LET OnLine(v) == v.line_ref = c.LineRef[1]
        ByOperator(v) == v.operator_ref = c.OperatorRef[1]
        IsVehicle(v) == v.vehicle_ref = c.VehicleRef[1]
        l1 == IF TruthyStr(c.LineRef) THEN SelectSeq(vehicles_data, OnLine)
              ELSE vehicles_data
        l2 == IF TruthyStr(c.OperatorRef) THEN SelectSeq(l1, ByOperator) ELSE l1
        l3 == IF TruthyStr(c.VehicleRef) THEN SelectSeq(l2, IsVehicle) ELSE l2
    IN  IF TruthyNum(c.MaximumNumberOfVehicles)
        THEN SlicePrefix(l3, c.MaximumNumberOfVehicles[1]) ELSE l3

\* The query parameters a client may send: up to two of the four at a time.
Criteria ==
    LET all == [LineRef : {None, Some(""), Some("45")},
                OperatorRef : {None, Some("MIDL"), Some("NXWM")},
                VehicleRef : {None, Some("MIDL_1003")},
                MaximumNumberOfVehicles : {None, Some(-1), Some(0), Some(1)}]
        sent(c) == {k \in DOMAIN c : c[k] /= None}
    IN  {c \in all : Cardinality(sent(c)) <= 2}

\* The microsecond a reading of the clock may show.
Micros == {0, 123456}

\* GET /vehicle-monitoring.  The roster advances at second utcnow, microsecond
\* `micro`; the clock may have moved on by `late` seconds when the document is
\* stamped.
vehicle_monitoring(c, seed, late, micro) ==
    /\ Idle
    /\ calls < MaxCalls
    /\ utcnow + late <= MaxSeconds
    /\ LET got == generator_get_vehicle_data(heap, vehicles, seed,
                                              datetime(utcnow, micro))
           vehicles_data == FilterVehicles(got.data, c)
       IN  /\ heap' = got.heap
           /\ vehicles' = got.vehicles
           /\ snapshot' = got.data
           /\ request' = [op |-> "GET /vehicle-monitoring", criteria |-> c,
                          at |-> datetime(utcnow, micro)]
           /\ response' =
                [status |-> 200, detail |-> "",
                 doc |-> Some(create_siri_vehicle_monitoring_response(
                                 vehicles_data, "MIDLANDBUS",
                                 datetime(utcnow + late, micro)))]
    /\ calls' = calls + 1
    /\ utcnow' = utcnow + late
    /\ UNCHANGED <<now, vehicle_positions,
                   tracking_sessions, tracking_sessions_id_seq, SERVICE_START_TIME,
                   threads, django_session>>

\* The response builder reporting the time of the request as the start.
create_check_status_response_now(status, service_started_time, t) ==
    [root |-> "Siri",
     version |-> "2.0",
     CheckStatusResponse |->
       [Status |-> IF status THEN "true" ELSE "false",
        ServiceStartedTime |-> format_datetime(t),
        DataReady |-> "true"]]

\* create_check_status_response(status, service_started_time), its
\* datetime.utcnow() reading t.
create_check_status_response(status, service_started_time, t) ==
    LET started == IF service_started_time = None THEN t ELSE service_started_time[1]
    IN  [root |-> "Siri",
         version |-> "2.0",
         CheckStatusResponse |->
           [Status |-> IF status THEN "true" ELSE "false",
            ServiceStartedTime |-> format_datetime(started),
            DataReady |-> "true"]]

\* GET /check-status
check_status(micro) ==
    /\ Idle
    /\ request' = [op |-> "GET /check-status", at |-> datetime(utcnow, micro)]
    /\ response' =
         [status |-> 200, detail |-> "",
          doc |-> Some(create_check_status_response(
                          TRUE, Some(SERVICE_START_TIME), datetime(utcnow, micro)))]
    /\ UNCHANGED <<now, vehicle_positions, utcnow, vehicles, snapshot, calls,
                   tracking_sessions, tracking_sessions_id_seq, SERVICE_START_TIME,
                   heap, threads, django_session>>

\* A second passes.
TickSecond ==
    /\ Idle
    /\ utcnow < MaxSeconds
    /\ utcnow' = utcnow + 1
    /\ UNCHANGED <<now, vehicle_positions, request, response, vehicles, snapshot, calls,
                 tracking_sessions, tracking_sessions_id_seq, SERVICE_START_TIME,
                   heap, threads, django_session>>

InitBods ==
    /\ now = 0
    /\ vehicle_positions = {}
    /\ request = NoExchange
    /\ response = NoResponse
    /\ utcnow = 0
    /\ \E seed \in Seeds : vehicles = generate_vehicles(seed, datetime(0, 0))
    /\ snapshot = <<>>
    /\ calls = 0
    /\ tracking_sessions = {}
    /\ tracking_sessions_id_seq = 0
    /\ SERVICE_START_TIME = datetime(0, 0)
    /\ heap = generator_init
    /\ threads = <<>>
    /\ django_session = <<>>

NextBods ==
    \/ \E c \in Criteria, seed \in 0..1, late \in 0..1, micro \in Micros :
          vehicle_monitoring(c, seed, late, micro)
    \/ \E micro \in Micros : check_status(micro)
    \/ TickSecond
    \/ Reply

SpecBods == InitBods /\ [][NextBods]_vars

-----------------------------------------------------------------------------
(* Reading the last exchange of the synthetic feed. *)

MonitoringDelivered ==
    request.op = "GET /vehicle-monitoring" /\ response.status = 200 /\ response.doc /= None

\* The vehicle_ref values of a list of VehicleData, and of the document's
\* activities, in order.  A roster holds every vehicle_ref once.
VehicleRefsOf(l) == [i \in 1..Len(l) |-> l[i].vehicle_ref]
EmittedVehicleRefs ==
    [i \in 1..Len(Activities) |-> Activities[i].MonitoredVehicleJourney.VehicleRef]

\* A criterion is populated when the request gives it a value that is not empty.
Populated(o) == o /= None /\ o[1] /= ""

\* The vehicles of the snapshot that match every populated criterion of c.
Survivors(c) ==
    LET Matches(v) ==
          /\ Populated(c.LineRef) => v.line_ref = c.LineRef[1]
          /\ Populated(c.OperatorRef) => v.operator_ref = c.OperatorRef[1]
          /\ Populated(c.VehicleRef) => v.vehicle_ref = c.VehicleRef[1]
    IN  SelectSeq(snapshot, Matches)

(* C3: the document lists exactly the vehicles of the snapshot that match    *)
(* every populated criterion, in the snapshot's order; with                  *)
(* MaximumNumberOfVehicles a positive m, the first min(m, k) of those k.     *)
C3_FilterReturnsMatchesInOrder ==
    LET c == request.criteria
        m == c.MaximumNumberOfVehicles
    IN  (MonitoringDelivered /\ (m = None \/ m[1] > 0)) =>
           /\ m = None => EmittedVehicleRefs = VehicleRefsOf(Survivors(c))
           /\ m /= None =>
                EmittedVehicleRefs =
                   VehicleRefsOf(SubSeq(Survivors(c), 1, Min(m[1], Len(Survivors(c)))))

\* Several vehicles survive the line filter and the limit keeps the first of them.
C3_Witness ==
    /\ MonitoringDelivered
    /\ request.criteria.LineRef = Some("45")
    /\ request.criteria.MaximumNumberOfVehicles = Some(1)
    /\ Len(Survivors(request.criteria)) >= 2
    /\ Len(snapshot) > 2
    /\ Len(Activities) = 1

(* C4: MaximumNumberOfVehicles = 0 yields a document with no VehicleActivity *)
(* that still has its root, its ServiceDelivery and its delivery.            *)
C4_ZeroLimitYieldsEmptyDocument ==
    (request.op = "GET /vehicle-monitoring"
       /\ request.criteria.MaximumNumberOfVehicles = Some(0)) =>
        /\ response.status = 200
        /\ response.doc /= None
        /\ response.doc[1].root = "Siri"
        /\ response.doc[1].ServiceDelivery.ProducerRef = "MIDLANDBUS"
        /\ Len(Activities) = 0

(* C5: for every snapshot and every criteria the endpoint can receive,       *)
(* filtering the filtered list again changes nothing.                        *)
C5_FilterIdempotent ==
    request.op = "GET /vehicle-monitoring" =>
        LET once == FilterVehicles(snapshot, request.criteria)
        IN  FilterVehicles(once, request.criteria) = once


-----------------------------------------------------------------------------
(* The two feeds side by side: the live API and the synthetic feed are two   *)
(* processes that share nothing.                                             *)

FeedReports ==
    {ConfiguredReport("BUS_1", 1),
     update_position_api_data("BUS_1", journey_config(MinimalStart("BUS_1")),
                              StandingDevice, 2, 2)}

FeedCriteria ==
    [LineRef : {None, Some("45")}, OperatorRef : {None}, VehicleRef : {None},
     MaximumNumberOfVehicles : {None, Some(2)}]

NextFeeds ==
    \/ \E data \in FeedReports : submit_vehicle_position(data, TRUE)
    \/ \E dbOk \in BOOLEAN : get_vehicle_monitoring(dbOk, 0)
    \/ \E c \in FeedCriteria, micro \in Micros : vehicle_monitoring(c, 1, 0, micro)
    \/ Tick
    \/ TickSecond
    \/ Reply

SpecFeeds == InitBods /\ [][NextFeeds]_vars

\* The list the synthetic handler gave its encoder.
EncodedStates == FilterVehicles(snapshot, request.criteria)

\* The identity and journey fields of an activity are those of the state v.
JourneyOf(a, v) ==
    LET j == a.MonitoredVehicleJourney IN
    /\ j.VehicleRef = v.vehicle_ref
    /\ j.LineRef = v.line_ref
    /\ j.DirectionRef = v.direction_ref
    /\ j.PublishedLineName = v.published_line_name
    /\ j.OperatorRef = v.operator_ref
    /\ j.OriginRef = v.origin_ref
    /\ j.OriginName = v.origin_name
    /\ j.DestinationRef = v.destination_ref
    /\ j.BlockRef = v.block_ref
    /\ j.VehicleJourneyRef = v.vehicle_journey_ref
    /\ j.VehicleLocation.Longitude.value = v.longitude
    /\ j.VehicleLocation.Latitude.value = v.latitude

(* C15: the encoder emits exactly one VehicleActivity per vehicle state of   *)
(* its input list, in the input order, each with one MonitoredVehicleJourney *)
(* whose VehicleRef, LineRef and other fields are those of the state at the  *)
(* same index: no state is dropped, duplicated or reordered.                 *)
C15_OneActivityPerStateInOrder ==
    /\ MonitoringDelivered =>
          /\ Len(Activities) = Len(EncodedStates)
          /\ \A i \in 1..Len(Activities) :
                /\ JourneyOf(Activities[i], EncodedStates[i])
                /\ Activities[i].RecordedAtTime.sec = EncodedStates[i].recorded_at_time.sec
                /\ Activities[i].MonitoredVehicleJourney.Bearing.value
                      = EncodedStates[i].bearing
    /\ LiveFeedDelivered =>
          /\ Len(Activities) = Len(request.rows)
          /\ \A i \in 1..Len(Activities) :
                /\ JourneyOf(Activities[i], request.rows[i])
                /\ Activities[i].RecordedAtTime.instant = request.rows[i].recorded_at_time
                /\ Activities[i].MonitoredVehicleJourney.Bearing.value
                      = request.rows[i].bearing[1]

\* The line filter kept two of the roster's vehicles and the document lists
\* them, while the live table holds rows of its own.
C15_Witness ==
    /\ MonitoringDelivered
    /\ request.criteria.LineRef = Some("45")
    /\ Len(snapshot) > Len(Activities)
    /\ Len(Activities) = 2
    /\ Activities[1].MonitoredVehicleJourney.VehicleRef
         /= Activities[2].MonitoredVehicleJourney.VehicleRef
    /\ vehicle_positions /= {}

(* C16: every VehicleActivity of a delivered document carries an             *)
(* ItemIdentifier, and no two activities of one document carry the same one, *)
(* also when the stored row has no item_identifier.                          *)
C16_ItemIdentifierPresentAndUnique ==
    (LiveFeedDelivered \/ MonitoringDelivered) =>
        /\ \A i \in 1..Len(Activities) :
              Activities[i].ItemIdentifier /= None /\ Activities[i].ItemIdentifier /= Some("")
        /\ \A i, k \in 1..Len(Activities) :
              i /= k => Activities[i].ItemIdentifier /= Activities[k].ItemIdentifier

(* C18: every datetime element of a delivered document is written as        *)
(* YYYY-MM-DDTHH:MM:SS.mmmZ: three fractional digits and a literal Z, never  *)
(* an embedded UTC offset.                                                   *)
DatetimeTexts ==
    LET sd == response.doc[1].ServiceDelivery
        vmd == sd.VehicleMonitoringDelivery
        OptionalText(o) == IF o = None THEN {} ELSE {o[1]}
    IN  {sd.ResponseTimestamp, vmd.ResponseTimestamp}
        \cup OptionalText(vmd.ValidUntilTime)
        \cup UNION {{Activities[i].RecordedAtTime, Activities[i].ValidUntilTime}
                     \cup OptionalText(Activities[i].MonitoredVehicleJourney
                                            .OriginAimedDepartureTime)
                     \cup OptionalText(Activities[i].MonitoredVehicleJourney
                                            .DestinationAimedArrivalTime) :
                    i \in 1..Len(Activities)}

C18_DatetimesInSiriForm ==
    (LiveFeedDelivered \/ MonitoringDelivered) =>
        \A text \in DatetimeTexts : text.fraction_digits = 3 /\ text.zone = "Z"

(* C17: every GET /check-status response reports Status true and DataReady  *)
(* true, and its ServiceStartedTime is the process's start time, which no    *)
(* step changes: the same value in every response, however many requests are *)
(* served and however much time passes between them.                         *)
C17_CheckStatusIsConstant ==
    [][/\ SERVICE_START_TIME' = SERVICE_START_TIME
       /\ request'.op = "GET /check-status" =>
            /\ response'.status = 200
            /\ response'.doc /= None
            /\ response'.doc[1].CheckStatusResponse.Status = "true"
            /\ response'.doc[1].CheckStatusResponse.DataReady = "true"
            /\ response'.doc[1].CheckStatusResponse.ServiceStartedTime
                 = format_datetime(SERVICE_START_TIME)]_vars

\* The status is asked for after the roster has served requests and the clock
\* has moved past the start.
C17_Witness ==
    /\ request.op = "GET /check-status"
    /\ calls > 0
    /\ request.at.sec > SERVICE_START_TIME.sec
    /\ request.at.micro /= SERVICE_START_TIME.micro
    /\ response.doc[1].CheckStatusResponse.ServiceStartedTime.sec = SERVICE_START_TIME.sec

-----------------------------------------------------------------------------
(* Reading a document back: what a SIRI-VM consumer recovers from the text   *)
(* of each element of a synthetic VehicleActivity.                           *)

\* ....SSS'Z' read back as a datetime: the milliseconds, and no more.
decode_datetime(text) == datetime(text.sec, text.milli * 1000)

decode_optional_datetime(o) == IF o = None THEN None ELSE Some(decode_datetime(o[1]))

decode_vehicle_activity(a) ==
    LET j == a.MonitoredVehicleJourney IN
    [vehicle_ref |-> j.VehicleRef,
     line_ref |-> j.LineRef,
     direction_ref |-> j.DirectionRef,
     published_line_name |-> j.PublishedLineName,
     operator_ref |-> j.OperatorRef,
     origin_ref |-> j.OriginRef,
     origin_name |-> j.OriginName,
     destination_ref |-> j.DestinationRef,
     destination_name |-> j.DestinationName,
     origin_aimed_departure_time |-> decode_optional_datetime(j.OriginAimedDepartureTime),
     destination_aimed_arrival_time |->
        decode_optional_datetime(j.DestinationAimedArrivalTime),
     latitude |-> j.VehicleLocation.Latitude.value,
     longitude |-> j.VehicleLocation.Longitude.value,
     bearing |-> j.Bearing.value,
     velocity |-> IF j.Velocity = None THEN None ELSE Some(j.Velocity[1].value),
     occupancy |-> j.Occupancy,
     block_ref |-> j.BlockRef,
     vehicle_journey_ref |-> j.VehicleJourneyRef,
     recorded_at_time |-> decode_datetime(a.RecordedAtTime),
     valid_until_time |-> decode_datetime(a.ValidUntilTime)]

\* The fields of a vehicle state that are present: all but the unset optionals.
OptionalFields ==
    {"destination_name", "origin_aimed_departure_time",
     "destination_aimed_arrival_time", "velocity", "occupancy"}
PresentFields(v) ==
    {f \in DOMAIN v : f \in OptionalFields => v[f] /= None}

(* C19: decoding the encoded document gives the encoded list back: as many  *)
(* states, in the same order, and an equal value for every field that is     *)
(* present, strings, timestamps and numbers alike.                           *)
C19_DecodeEncodeRoundTrip ==
    MonitoringDelivered =>
        /\ Len(Activities) = Len(EncodedStates)
        /\ \A i \in 1..Len(Activities) :
              \A f \in PresentFields(EncodedStates[i]) :
                 decode_vehicle_activity(Activities[i])[f] = EncodedStates[i][f]

(* C20: the live snapshot taken at `now` contains only rows recorded         *)
(* strictly later than now minus 5 minutes, contains every such row of the   *)
(* store, once, and lists them in non-increasing recorded_at_time order.     *)
C20_SnapshotIsFreshCompleteOrdered ==
    (LiveFeedServed /\ request.dbOk) =>
        LET rows == request.rows
            cutoff == request.at - FRESHNESS_MINUTES
        IN  /\ \A i \in 1..Len(rows) :
                  rows[i] \in request.table /\ rows[i].recorded_at_time > cutoff
            /\ \A r \in request.table :
                  r.recorded_at_time > cutoff => \E i \in 1..Len(rows) : rows[i] = r
            /\ \A i, k \in 1..Len(rows) : i /= k => rows[i] /= rows[k]
            /\ \A i, k \in 1..Len(rows) :
                  i < k => rows[i].recorded_at_time >= rows[k].recorded_at_time

\* A row recorded exactly five minutes before the query stays out while a
\* younger one is listed.
C20_Witness ==
    /\ LiveFeedServed /\ request.dbOk
    /\ Len(request.rows) = 1
    /\ \E r \in request.table :
          r.recorded_at_time = request.at - FRESHNESS_MINUTES
    /\ request.rows[1].recorded_at_time > request.at - FRESHNESS_MINUTES

-----------------------------------------------------------------------------
(* The roster on its own: VehicleDataGenerator.get_vehicle_data() called     *)
(* directly, as many times as MaxAdvances allows.                            *)

advance_roster(seed) ==
    /\ calls < MaxAdvances
    /\ LET got == generator_get_vehicle_data(heap, vehicles, seed,
                                              datetime(utcnow, 0))
       IN  /\ heap' = got.heap
           /\ vehicles' = got.vehicles
           /\ snapshot' = got.data
    /\ calls' = calls + 1
    /\ UNCHANGED <<now, vehicle_positions, request, response, utcnow,
                   tracking_sessions, tracking_sessions_id_seq, SERVICE_START_TIME,
                   threads, django_session>>

NextRoster ==
    \/ \E seed \in Seeds : advance_roster(seed)
    \/ TickSecond

SpecRoster == InitBods /\ [][NextRoster]_vars

-----------------------------------------------------------------------------
(* Concurrent requests on the shared roster.  Each request of ThreadIds runs *)
(* get_vehicle_data (src/bods-api/app/data_generator.py:80-123) statement by *)
(* statement, in any interleaving with the other: the finest schedule a      *)
(* threaded server could produce.  A frame holds the locals of the call.     *)

ThreadIds == {"a", "b"}

\* The frames of requests that are inside get_vehicle_data.
Running == {th \in DOMAIN threads : threads[th].pc /= "done"}

OtherVars ==
    <<now, vehicle_positions, request, response, utcnow,
      tracking_sessions, tracking_sessions_id_seq, SERVICE_START_TIME, django_session>>

\* `position = vehicle['position']`, the entry's own dict and no copy of it.
position_alias(h, vehicle, th, n) ==
    [heap |-> h, position |-> vehicle.position]

\* `position = vehicle['position'].copy()`: a new dict, known to this frame
\* alone.
position_copy(h, vehicle, th, n) ==
    [heap |-> (<<"copy", th, n>> :> h[vehicle.position]) @@ h,
     position |-> <<"copy", th, n>>]

\* vehicles_data = []; now = datetime.utcnow()
call_get_vehicle_data(th, seed) ==
    /\ th \notin DOMAIN threads
    /\ threads' = (th :> [pc |-> "copy", n |-> 1, seed |-> seed,
                          now |-> datetime(utcnow, 0), position |-> None,
                          vehicles_data |-> <<>>]) @@ threads
    /\ UNCHANGED <<heap, vehicles, snapshot, calls>>
    /\ UNCHANGED OtherVars

\* position = vehicle['position'].copy()
stmt_copy(th) ==
    /\ th \in Running /\ threads[th].pc = "copy"
    /\ LET f == threads[th]
           got == position_copy(heap, vehicles[f.n], th, f.n)
       IN  /\ heap' = got.heap
           /\ threads' = [threads EXCEPT ![th].position = got.position,
                                         ![th].pc = "lat"]
    /\ UNCHANGED <<vehicles, snapshot, calls>>
    /\ UNCHANGED OtherVars

\* position['lat'] += random.uniform(-0.001, 0.001)
stmt_lat(th) ==
    /\ th \in Running /\ threads[th].pc = "lat"
    /\ LET f == threads[th] IN
       heap' = [heap EXCEPT ![f.position].lat =
                               advance_position(heap[f.position], f.n, f.seed).lat]
    /\ threads' = [threads EXCEPT ![th].pc = "lon"]
    /\ UNCHANGED <<vehicles, snapshot, calls>>
    /\ UNCHANGED OtherVars

\* position['lon'] += random.uniform(-0.001, 0.001)
stmt_lon(th) ==
    /\ th \in Running /\ threads[th].pc = "lon"
    /\ LET f == threads[th] IN
       heap' = [heap EXCEPT ![f.position].lon =
                               advance_position(heap[f.position], f.n, f.seed).lon]
    /\ threads' = [threads EXCEPT ![th].pc = "bearing"]
    /\ UNCHANGED <<vehicles, snapshot, calls>>
    /\ UNCHANGED OtherVars

\* position['bearing'] = (position['bearing'] + random.uniform(-10, 10)) % 360
stmt_bearing(th) ==
    /\ th \in Running /\ threads[th].pc = "bearing"
    /\ LET f == threads[th] IN
       heap' = [heap EXCEPT ![f.position].bearing =
                               advance_position(heap[f.position], f.n, f.seed).bearing]
    /\ threads' = [threads EXCEPT ![th].pc = "bind"]
    /\ UNCHANGED <<vehicles, snapshot, calls>>
    /\ UNCHANGED OtherVars

\* vehicle['last_update'] = now; vehicle['position'] = position
stmt_bind(th) ==
    /\ th \in Running /\ threads[th].pc = "bind"
    /\ LET f == threads[th] IN
       vehicles' = [vehicles EXCEPT ![f.n].last_update = f.now,
                                    ![f.n].position = f.position]
    /\ threads' = [threads EXCEPT ![th].pc = "append"]
    /\ UNCHANGED <<heap, snapshot, calls>>
    /\ UNCHANGED OtherVars

\* vehicles_data.append(VehicleData(...)), read from the local `position`;
\* then the next roster entry, or `return vehicles_data`.
stmt_append(th) ==
    /\ th \in Running /\ threads[th].pc = "append"
    /\ LET f == threads[th]
           vehicle == [vehicles[f.n] EXCEPT !.position = f.position]
           data == Append(f.vehicles_data,
                          vehicle_data(heap, vehicle, f.n, f.seed, f.now))
       IN  IF f.n < Len(vehicles)
           THEN /\ threads' = [threads EXCEPT ![th].vehicles_data = data,
                                              ![th].n = f.n + 1,
                                              ![th].position = None,
                                              ![th].pc = "copy"]
                /\ UNCHANGED <<snapshot, calls>>
           ELSE /\ threads' = [threads EXCEPT ![th].vehicles_data = <<>>,
                                              ![th].position = None,
                                              ![th].pc = "done"]
                /\ snapshot' = data
                /\ calls' = calls + 1
    /\ UNCHANGED <<heap, vehicles>>
    /\ UNCHANGED OtherVars

NextConcurrent ==
    \/ \E th \in ThreadIds, seed \in 0..1 : call_get_vehicle_data(th, seed)
    \/ \E th \in ThreadIds : stmt_copy(th)
    \/ \E th \in ThreadIds : stmt_lat(th)
    \/ \E th \in ThreadIds : stmt_lon(th)
    \/ \E th \in ThreadIds : stmt_bearing(th)
    \/ \E th \in ThreadIds : stmt_bind(th)
    \/ \E th \in ThreadIds : stmt_append(th)

\* The interleavings are explored on a roster cut to its first MaxShared
\* entries.
InitConcurrent ==
    /\ now = 0
    /\ vehicle_positions = {}
    /\ request = NoExchange
    /\ response = NoResponse
    /\ utcnow = 0
    /\ \E seed \in Seeds :
          vehicles = SubSeq(generate_vehicles(seed, datetime(0, 0)), 1, MaxShared)
    /\ snapshot = <<>>
    /\ calls = 0
    /\ tracking_sessions = {}
    /\ tracking_sessions_id_seq = 0
    /\ SERVICE_START_TIME = datetime(0, 0)
    /\ heap = generator_init
    /\ threads = <<>>
    /\ django_session = <<>>

SpecConcurrent == InitConcurrent /\ [][NextConcurrent]_vars

\* The roster has been advanced at least once.
Advanced == calls > 0 /\ snapshot /= <<>>

(* C22: after construction and after any number of get_vehicle_data calls    *)
(* the roster holds the same NumVehicles (10) vehicles, MIDL_1000 onwards,   *)
(* each once, each with the route and the block_ref of its construction, and *)
(* every snapshot returns them in roster order.                              *)
C22_RosterIsFixed ==
    /\ [](/\ Len(vehicles) = NumVehicles
          /\ \A n \in 1..Len(vehicles) :
                /\ vehicles[n].vehicle_ref =
                      "MIDL_" \o ToString(FIRST_FLEET_NUMBER + n - 1)
                /\ vehicles[n].block_ref = "BLOCK_" \o ToString(((n - 1) % BLOCKS) + 1)
                /\ vehicles[n].route \in RouteObjects
          /\ \A n, m \in 1..Len(vehicles) :
                vehicles[n].vehicle_ref = vehicles[m].vehicle_ref => n = m
          /\ snapshot /= <<>> =>
                /\ Len(snapshot) = Len(vehicles)
                /\ \A n \in 1..Len(vehicles) :
                      /\ snapshot[n].vehicle_ref = vehicles[n].vehicle_ref
                      /\ snapshot[n].block_ref = vehicles[n].block_ref
                      /\ snapshot[n].line_ref = routes[vehicles[n].route[2]].line_ref)
    /\ [][/\ Len(vehicles') = Len(vehicles)
          /\ \A n \in 1..Len(vehicles) :
                /\ vehicles'[n].vehicle_ref = vehicles[n].vehicle_ref
                /\ vehicles'[n].route = vehicles[n].route
                /\ vehicles'[n].block_ref = vehicles[n].block_ref]_vars

\* The roster has been advanced as often as the bound allows, by draws that
\* were not all the same.
C22_Witness ==
    /\ Advanced
    /\ calls = MaxAdvances
    /\ \E n \in 1..Len(vehicles) :
          /\ vehicles[n].position = copy_object(n)
          /\ heap[vehicles[n].position].lat /= heap[vehicles[1].position].lat

\* The stored bearing of roster entry n.
StoredBearing(h, roster, n) == h[roster[n].position].bearing

C29_AdvanceTouchesOwnPositionOnly ==
    /\ [](\A a \in RouteObjects \cup TemplateObjects : heap[a] = generator_init[a])
    /\ [][calls' /= calls =>
            \E seed \in Seeds :
                \A n \in 1..Len(vehicles) :
                    heap'[vehicles'[n].position] =
                        advance_position(heap[vehicles[n].position], n, seed)]_vars

\* After the first call: two vehicles that started from the same template
\* have moved apart.
C29_Witness ==
    /\ calls = 1
    /\ \E n, m \in 1..Len(vehicles), i \in 1..Len(position_templates), seed \in Seeds :
          /\ n /= m
          /\ heap[vehicles[n].position] = advance_position(position_templates[i], n, seed)
          /\ heap[vehicles[m].position] = advance_position(position_templates[i], m, seed)
          /\ heap[vehicles[n].position] /= heap[vehicles[m].position]

\* The frames whose `position` has some but not all of its three updates.
HalfUpdated == {th \in Running : threads[th].pc \in {"lon", "bearing"}}

\* The frames that have begun to update their `position` and have not yet read
\* it into a VehicleData.
Updating == {th \in Running : threads[th].pc \in {"lon", "bearing", "bind", "append"}}

(* C24: under any interleaving of concurrent /vehicle-monitoring requests no *)
(* roster entry holds a half-updated vehicle and no request returns one: the *)
(* dict a request is updating is no roster entry's position while it is half *)
(* updated, and nobody else writes to it before the request has read it, so  *)
(* latitude, longitude and bearing come from one position-advance step.      *)
C24_NoHalfUpdatedVehicle ==
    /\ [](\A th \in HalfUpdated : \A n \in 1..Len(vehicles) :
              vehicles[n].position /= threads[th].position)
    /\ [][\A th \in Updating :
            threads'[th] = threads[th] =>
                heap'[threads[th].position] = heap[threads[th].position]]_vars

\* Both requests are half way through updating the same roster entry.
C24_Witness ==
    /\ HalfUpdated = ThreadIds
    /\ threads["a"].n = threads["b"].n
    /\ threads["a"].n > 1

(* C21: within one feed request a single captured now is used: the          *)
(* ResponseTimestamp of the ServiceDelivery, the ResponseTimestamp of the    *)
(* VehicleMonitoringDelivery and the RecordedAtTime of the snapshot are the  *)
(* same instant, and the delivery's ValidUntilTime is that instant plus 30   *)
(* seconds, even when the clock advances during the request.                 *)
C21_SingleCapturedNow ==
    MonitoringDelivered =>
        LET sd == response.doc[1].ServiceDelivery
            vmd == sd.VehicleMonitoringDelivery
            captured == format_datetime(request.at)
        IN  /\ sd.ResponseTimestamp = captured
            /\ vmd.ResponseTimestamp = captured
            /\ \A i \in 1..Len(snapshot) :
                  format_datetime(snapshot[i].recorded_at_time) = captured
            /\ vmd.ValidUntilTime =
                  Some(format_datetime(datetime(request.at.sec + VALID_SECONDS,
                                                request.at.micro)))

-----------------------------------------------------------------------------
(* The dashboard's session views served concurrently                         *)
(* (src/dashboard/tracker/views.py).  Each request of ThreadIds runs its     *)
(* view query by query; a query is one statement of the database and takes   *)
(* effect at once.  The views open no transaction and take no lock.          *)

DashboardOtherVars ==
    <<now, vehicle_positions, request, utcnow, vehicles, snapshot, calls,
      SERVICE_START_TIME, heap>>

\* start_tracking up to its first query: the body is parsed and checked.
call_start_tracking(th, user, data) ==
    /\ th \notin DOMAIN threads
    /\ tracking_sessions_id_seq < MaxSessions
    /\ IF ~TruthyStr(Get(data, "vehicle_ref"))
       THEN /\ response' = JsonResponse(400, "Vehicle reference required")
            /\ UNCHANGED threads
       ELSE IF ~TruthyStr(GetOr(data, "line_ref", Some("UNKNOWN")))
       THEN /\ response' = JsonResponse(400, "Line reference required")
            /\ UNCHANGED threads
       ELSE /\ threads' = (th :> [op |-> "start_tracking", pc |-> "update",
                                  user |-> user, data |-> data,
                                  session |-> None]) @@ threads
            /\ UNCHANGED response
    /\ UNCHANGED <<tracking_sessions, tracking_sessions_id_seq, django_session>>
    /\ UNCHANGED DashboardOtherVars

\* TrackingSession.objects.filter(user=request.user, is_active=True)
\*     .update(is_active=False, end_time=timezone.now())
start_tracking_update(th) ==
    /\ th \in DOMAIN threads
    /\ threads[th].op = "start_tracking" /\ threads[th].pc = "update"
    /\ tracking_sessions' =
         update_ended(tracking_sessions,
                      ActiveSessions(tracking_sessions, threads[th].user), now)
    /\ threads' = [threads EXCEPT ![th].pc = "create"]
    /\ UNCHANGED <<response, tracking_sessions_id_seq, django_session>>
    /\ UNCHANGED DashboardOtherVars

\* TrackingSession.objects.create(user=request.user, vehicle_ref=vehicle_ref),
\* request.session['journey_config'] = {...} and the answer.
start_tracking_create(th) ==
    /\ th \in DOMAIN threads
    /\ threads[th].op = "start_tracking" /\ threads[th].pc = "create"
    /\ tracking_sessions_id_seq < MaxSessions
    /\ LET f == threads[th] IN
       /\ tracking_sessions' = tracking_sessions \cup
            {[id |-> tracking_sessions_id_seq + 1, user |-> f.user,
              vehicle_ref |-> f.data.vehicle_ref[1], start_time |-> now,
              end_time |-> None, is_active |-> TRUE]}
       /\ django_session' = (f.user :> journey_config(f.data)) @@ django_session
    /\ tracking_sessions_id_seq' = tracking_sessions_id_seq + 1
    /\ response' = JsonResponse(200, "Started tracking")
    /\ threads' = [x \in DOMAIN threads \ {th} |-> threads[x]]
    /\ UNCHANGED DashboardOtherVars

\* stop_tracking up to .first(): the user's active session of least id.
call_stop_tracking(th, user) ==
    /\ th \notin DOMAIN threads
    /\ IF ActiveSessions(tracking_sessions, user) = {}
       THEN /\ response' = JsonResponse(400, "No active tracking session")
            /\ UNCHANGED threads
       ELSE \E session \in ActiveSessions(tracking_sessions, user) :
            /\ \A x \in ActiveSessions(tracking_sessions, user) : session.id <= x.id
            /\ threads' = (th :> [op |-> "stop_tracking", pc |-> "end_session",
                                  user |-> user, data |-> <<>>,
                                  session |-> Some(session)]) @@ threads
            /\ UNCHANGED response
    /\ UNCHANGED <<tracking_sessions, tracking_sessions_id_seq, django_session>>
    /\ UNCHANGED DashboardOtherVars

\* session.end_session(): save() writes the instance over the row of its id.
stop_tracking_end_session(th) ==
    /\ th \in DOMAIN threads
    /\ threads[th].op = "stop_tracking" /\ threads[th].pc = "end_session"
    /\ LET self == threads[th].session[1] IN
       tracking_sessions' =
         {x \in tracking_sessions : x.id /= self.id} \cup {end_session(self, now)}
    /\ response' = JsonResponse(200, "Stopped tracking")
    /\ threads' = [x \in DOMAIN threads \ {th} |-> threads[x]]
    /\ UNCHANGED <<tracking_sessions_id_seq, django_session>>
    /\ UNCHANGED DashboardOtherVars

\* TrackingSessionAdmin.end_sessions for the selected sessions `queryset`
\* (src/dashboard/tracker/admin.py).
end_sessions(queryset) ==
    /\ queryset /= {}
    /\ tracking_sessions' = update_ended(tracking_sessions, queryset, now)
    /\ UNCHANGED <<response, threads, tracking_sessions_id_seq, django_session>>
    /\ UNCHANGED DashboardOtherVars

\* A minute passes while requests are being served.
TickDashboard ==
    /\ now < MaxMinutes
    /\ now' = now + 1
    /\ UNCHANGED <<vehicle_positions, request, response, utcnow, vehicles, snapshot,
                   calls, tracking_sessions, tracking_sessions_id_seq,
                   SERVICE_START_TIME, heap, threads, django_session>>

NextDashboard ==
    \/ \E th \in ThreadIds, user \in Users, data \in StartBodies :
          call_start_tracking(th, user, data)
    \/ \E th \in ThreadIds : start_tracking_update(th)
    \/ \E th \in ThreadIds : start_tracking_create(th)
    \/ \E th \in ThreadIds, user \in Users : call_stop_tracking(th, user)
    \/ \E th \in ThreadIds : stop_tracking_end_session(th)
    \/ \E queryset \in SUBSET tracking_sessions : end_sessions(queryset)
    \/ TickDashboard

SpecDashboard == Init /\ [][NextDashboard]_vars

(* C25: after any sequence and any interleaving of start_tracking and        *)
(* stop_tracking requests, concurrent start_tracking requests of one user    *)
(* included, each user has at most one TrackingSession with is_active.       *)
C25_OneActiveSessionPerUser ==
    \A user \in Users : Cardinality(ActiveSessions(tracking_sessions, user)) <= 1

(* C26: a tracking session is inactive exactly when its end_time is set: an  *)
(* active one has no end_time, an inactive one has an end_time that is not   *)
(* before its start_time, and an ended session never becomes active again.   *)
C26_InactiveIffEnded ==
    /\ [](\A x \in tracking_sessions :
            /\ x.is_active => x.end_time = None
            /\ ~x.is_active => (x.end_time /= None /\ x.end_time[1] >= x.start_time))
    /\ [][\A x \in tracking_sessions : \A y \in tracking_sessions' :
            (x.id = y.id /\ ~x.is_active) => ~y.is_active]_vars

\* Every session the bound allows has been created and ended, the last of
\* them by stop_tracking, and one of them a minute or more after it began.
C26_Witness ==
    /\ Cardinality(tracking_sessions) = MaxSessions
    /\ \A x \in tracking_sessions : ~x.is_active
    /\ \E x \in tracking_sessions : x.end_time[1] > x.start_time
    /\ response = JsonResponse(200, "Stopped tracking")

-----------------------------------------------------------------------------
(* update_position and get_vehicles (src/dashboard/tracker/views.py).  The   *)
(* dashboard's VehiclePosition model and the API's INSERT share the table    *)
(* vehicle_positions of one database.                                        *)

\* The keyword arguments of VehiclePosition.objects.create(...): for the
\* session, the stored journey_config `jc` ({} when there is none), the
\* device's JSON body `data` and the two timezone.now() readings t1 <= t2.
position_fields(session, jc, data, t1, t2) ==
    LET FromConfig(k, default) == GetOr(jc, k, GetOr(data, k, default)) IN
    [vehicle_ref |-> Some(session.vehicle_ref),
     line_ref |-> FromConfig("line_ref", Some("UNKNOWN")),
     direction_ref |-> FromConfig("direction_ref", Some("outbound")),
     published_line_name |->
        GetOr(jc, "line_ref", GetOr(data, "published_line_name", Some("Unknown Route"))),
     operator_ref |-> FromConfig("operator_ref", Some("UNKNOWN")),
     origin_ref |-> FromConfig("origin_ref", Some("UNKNOWN")),
     origin_name |-> FromConfig("origin_name", Some("Unknown")),
     destination_ref |-> FromConfig("destination_ref", Some("UNKNOWN")),
     destination_name |-> FromConfig("destination_name", None),
     longitude |-> data.longitude,
     latitude |-> data.latitude,
     bearing |-> Get(data, "bearing"),
     velocity |-> Get(data, "velocity"),
     occupancy |-> FromConfig("occupancy", None),
     block_ref |-> FromConfig("block_ref", Some("UNKNOWN")),
     vehicle_journey_ref |->
        FromConfig("vehicle_journey_ref", Some("journey_" \o session.vehicle_ref)),
     recorded_at_time |-> Some(t1),
     valid_until_time |-> Some(t2 + TRACK_VALID_MINUTES)]

\* VehiclePosition.objects.create(**fields): what it raises ("" when it
\* returns), the row and the table it leaves.
objects_create(table, fields) ==
    IF \E k \in NotNullColumns : fields[k] = None
    THEN [raised |-> "IntegrityError", table |-> table]
    ELSE IF \E old \in table : SameKey(old, ExcludedRow(fields))
    THEN [raised |-> "IntegrityError", table |-> table]
    ELSE [raised |-> "", position |-> ExcludedRow(fields),
          table |-> table \cup {ExcludedRow(fields)}]

\* api_data: the body posted to /vehicle-position, read from the created row.
position_api_data(position) ==
    [vehicle_ref |-> Some(position.vehicle_ref),
     line_ref |-> Some(position.line_ref),
     direction_ref |-> Some(position.direction_ref),
     published_line_name |-> Some(position.published_line_name),
     operator_ref |-> Some(position.operator_ref),
     origin_ref |-> Some(position.origin_ref),
     origin_name |-> Some(position.origin_name),
     destination_ref |-> Some(position.destination_ref),
     destination_name |-> position.destination_name,
     longitude |-> Some(position.longitude),
     latitude |-> Some(position.latitude),
     bearing |-> position.bearing,
     velocity |-> IF TruthyNum(position.velocity) THEN position.velocity ELSE None,
     occupancy |-> position.occupancy,
     block_ref |-> Some(position.block_ref),
     vehicle_journey_ref |-> Some(position.vehicle_journey_ref),
     recorded_at_time |-> Some(position.recorded_at_time),
     valid_until_time |-> Some(position.valid_until_time)]

\* The view's outcome for the user's active `session`: the answer and the
\* table it leaves.  apiUp: requests.post reaches the API; it raises otherwise.
update_position_try(table, session, jc, data, t, apiUp) ==
    IF ~({"longitude", "latitude"} \subseteq DOMAIN data)
    THEN [response |-> JsonResponse(500, "KeyError"), table |-> table]
    ELSE LET created == objects_create(table, position_fields(session, jc, data, t, t))
         IN  IF created.raised /= ""
             THEN [response |-> JsonResponse(500, created.raised), table |-> table]
             ELSE IF ~apiUp
             THEN [response |-> JsonResponse(500, "ConnectionError"),
                   table |-> created.table]
             ELSE [response |-> JsonResponse(200, "success"),
                   table |-> store_vehicle_position(
                                 created.table, position_api_data(created.position),
                                 TRUE).table]

\* POST /update-position
update_position(user, data, apiUp) ==
    /\ Idle
    /\ request' = [op |-> "POST /update-position", user |-> user, data |-> data,
                   apiUp |-> apiUp, at |-> now]
    /\ IF ActiveSessions(tracking_sessions, user) = {}
       THEN /\ response' = JsonResponse(400, "No active tracking session")
            /\ UNCHANGED vehicle_positions
       ELSE \E session \in ActiveSessions(tracking_sessions, user) :
            /\ \A x \in ActiveSessions(tracking_sessions, user) : session.id <= x.id
            /\ LET jc == IF user \in DOMAIN django_session
                         THEN django_session[user] ELSE <<>>
                   out == update_position_try(vehicle_positions, session, jc, data,
                                              now, apiUp)
               IN  /\ Cardinality(out.table) <= MaxRows + 1
                   /\ response' = out.response
                   /\ vehicle_positions' = out.table
    /\ UNCHANGED <<now, utcnow, vehicles, snapshot, calls,
                   tracking_sessions, tracking_sessions_id_seq, SERVICE_START_TIME,
                   heap, threads, django_session>>

\* recorded_at_time__gte = timezone.now() - timedelta(minutes=10)
RecentPositions(table, t) ==
    {r \in table : r.recorded_at_time >= t - MAP_WINDOW_MINUTES}

\* One entry of the 'vehicles' list.
map_entry(pos) ==
    [vehicle_ref |-> pos.vehicle_ref,
     line_ref |-> pos.line_ref,
     latitude |-> pos.latitude,
     longitude |-> pos.longitude,
     bearing |-> pos.bearing,
     occupancy |-> pos.occupancy,
     recorded_at_time |-> isoformat(pos.recorded_at_time)]

\* The loop with no seen_vehicles test: an entry for every position.
every_position(positions) ==
    [i \in 1..Len(positions) |-> map_entry(positions[i])]

\* `for pos in positions: if pos.vehicle_ref not in seen_vehicles: ...`
first_of_each_vehicle(positions) ==
    LET Unseen(i) == \A j \in 1..(i - 1) :
                        positions[j].vehicle_ref /= positions[i].vehicle_ref
        RECURSIVE Loop(_)
        Loop(i) == IF i > Len(positions) THEN <<>>
                   ELSE (IF Unseen(i) THEN <<map_entry(positions[i])>> ELSE <<>>)
                            \o Loop(i + 1)
    IN  Loop(1)

\* GET /api/vehicles
get_vehicles(dbOk) ==
    /\ Idle
    /\ request' = [op |-> "GET /get-vehicles", dbOk |-> dbOk, at |-> now]
    /\ IF ~dbOk
       THEN response' = JsonResponse(500, "OperationalError")
       ELSE \E positions \in OrderByRecordedDesc(RecentPositions(vehicle_positions, now)) :
              response' = [status |-> 200, detail |-> "",
                           doc |-> Some([vehicles |-> first_of_each_vehicle(positions)])]
    /\ UNCHANGED <<now, vehicle_positions, utcnow, vehicles, snapshot, calls,
                   tracking_sessions, tracking_sessions_id_seq, SERVICE_START_TIME,
                   heap, threads, django_session>>

\* A minute passes (d = 1), or as many minutes at once as the map looks back.
TickTracking(d) ==
    /\ Idle
    /\ now + d <= MaxMinutes + (IF d = 1 THEN 0 ELSE MAP_WINDOW_MINUTES)
    /\ now' = now + d
    /\ UNCHANGED <<vehicle_positions, request, response, utcnow, vehicles, snapshot,
                   calls, tracking_sessions, tracking_sessions_id_seq,
                   SERVICE_START_TIME, heap, threads, django_session>>

\* Bodies of update_position: a well-formed one and one without longitude.
DeviceBodies == {MovingDevice, Without(MovingDevice, "longitude")}

NextTracking ==
    \/ \E user \in Users, v \in VehicleRefs : start_tracking(user, ConfiguredStart(v))
    \/ \E user \in Users, data \in DeviceBodies, apiUp \in BOOLEAN :
          update_position(user, data, apiUp)
    \/ \E dbOk \in BOOLEAN : get_vehicles(dbOk)
    \/ \E d \in {1, MAP_WINDOW_MINUTES} : TickTracking(d)
    \/ Reply

SpecTracking == Init /\ [][NextTracking]_vars

(* C27: whenever update_position answers with an error status (400 for no    *)
(* active session, 500 for a malformed body or a failed POST to the API),    *)
(* the request has created no VehiclePosition row; and a row is created only *)
(* for the vehicle_ref of the user's active session.                         *)
C27_FailedUpdateCreatesNoRow ==
    [][(request.op = "none" /\ request'.op = "POST /update-position") =>
        /\ response'.status >= 400 => vehicle_positions' = vehicle_positions
        /\ \A r \in vehicle_positions' \ vehicle_positions :
              \E session \in ActiveSessions(tracking_sessions, request'.user) :
                  r.vehicle_ref = session.vehicle_ref]_vars

\* The entries of the answer to GET /api/vehicles.
MapEntries == response.doc[1].vehicles

(* C28: the get_vehicles response has at most one entry per vehicle_ref,     *)
(* that entry is the vehicle's position of greatest recorded_at_time among   *)
(* those of the last 10 minutes, every vehicle with such a position has an   *)
(* entry, and the entries are ordered most recent first.                     *)
C28_MapShowsLatestPerVehicle ==
    (request.op = "GET /get-vehicles" /\ response.status = 200) =>
        LET recent == {r \in vehicle_positions :
                          now - r.recorded_at_time <= MAP_WINDOW_MINUTES}
        IN  /\ \A i, j \in 1..Len(MapEntries) :
                  MapEntries[i].vehicle_ref = MapEntries[j].vehicle_ref => i = j
            /\ \A i \in 1..Len(MapEntries) :
                  \E r \in recent :
                      /\ r.vehicle_ref = MapEntries[i].vehicle_ref
                      /\ MapEntries[i].recorded_at_time.instant = r.recorded_at_time
                      /\ MapEntries[i].latitude = r.latitude
                      /\ MapEntries[i].longitude = r.longitude
                      /\ \A o \in recent :
                            o.vehicle_ref = r.vehicle_ref =>
                                o.recorded_at_time <= r.recorded_at_time
            /\ \A r \in recent :
                  \E i \in 1..Len(MapEntries) : MapEntries[i].vehicle_ref = r.vehicle_ref
            /\ \A i, j \in 1..Len(MapEntries) :
                  i < j => MapEntries[i].recorded_at_time.instant
                              >= MapEntries[j].recorded_at_time.instant

\* One vehicle has two positions inside the window, of which the map shows
\* the later one, and another position has left the window.
C28_Witness ==
    /\ request.op = "GET /get-vehicles" /\ response.status = 200
    /\ Len(MapEntries) = 1
    /\ \E r, o, x \in vehicle_positions :
          /\ r.vehicle_ref = o.vehicle_ref
          /\ o.recorded_at_time < r.recorded_at_time
          /\ now - o.recorded_at_time <= MAP_WINDOW_MINUTES
          /\ now - x.recorded_at_time > MAP_WINDOW_MINUTES

-----------------------------------------------------------------------------
(* The cleanup_tracks management command                                      *)
(* (src/dashboard/tracker/management/commands/cleanup_tracks.py).            *)

\* str.lower() of the answers typed at the prompt.
lower(answer) == IF answer = "YES" THEN "yes" ELSE answer

\* positions_query, for the cut-off and the --vehicle and --operator options.
positions_query(table, cutoff, vehicle_ref, operator_ref) ==
    {r \in table :
        /\ r.recorded_at_time < cutoff
        /\ TruthyStr(vehicle_ref) => r.vehicle_ref = vehicle_ref[1]
        /\ TruthyStr(operator_ref) => r.operator_ref = operator_ref[1]}

\* sessions_query: --operator does not narrow it.
sessions_query(sessions, cutoff, vehicle_ref, operator_ref) ==
    {x \in sessions :
        /\ x.start_time < cutoff
        /\ TruthyStr(vehicle_ref) => x.vehicle_ref = vehicle_ref[1]}

\* handle(**options): what the command writes last and the two tables it
\* leaves.  confirm: the line typed at the prompt; failing: the delete() that
\* raises, if any.
cleanup_tracks_try(positions, sessions, options, confirm, failing, t) ==
    LET cutoff == t - options.days * MINUTES_PER_DAY
        found_positions == positions_query(positions, cutoff,
                                           options.vehicle, options.operator)
        found_sessions == sessions_query(sessions, cutoff,
                                         options.vehicle, options.operator)
        kept(message) == [message |-> message, positions |-> positions,
                          sessions |-> sessions]
    IN  IF found_positions = {} /\ found_sessions = {}
        THEN kept("No data to clean up.")
        ELSE IF ~options.force /\ ~options.dry_run /\ lower(confirm) /= "yes"
        THEN kept("Operation cancelled.")
        ELSE IF options.dry_run
        THEN kept("DRY RUN - No data was deleted")
        ELSE IF failing = "positions"
        THEN kept("CommandError")
        ELSE IF failing = "sessions"
        THEN [message |-> "CommandError", positions |-> positions \ found_positions,
              sessions |-> sessions]
        ELSE [message |-> "Successfully deleted",
              positions |-> positions \ found_positions,
              sessions |-> sessions \ found_sessions]

\* python manage.py cleanup_tracks ...
cleanup_tracks(options, confirm, failing) ==
    LET out == cleanup_tracks_try(vehicle_positions, tracking_sessions,
                                  options, confirm, failing, now)
    IN  /\ Idle
        /\ request' = [op |-> "cleanup_tracks", options |-> options,
                       confirm |-> confirm, at |-> now]
        /\ response' = [status |-> 0, detail |-> out.message, doc |-> None]
        /\ vehicle_positions' = out.positions
        /\ tracking_sessions' = out.sessions
        /\ UNCHANGED <<now, utcnow, vehicles, snapshot, calls,
                       tracking_sessions_id_seq, SERVICE_START_TIME,
                       heap, threads, django_session>>

\* The command lines tried: --days 0 cuts off at the present moment.
CleanupOptions ==
    [days : {0, 1},
     vehicle : {None, Some("BUS_1")},
     operator : {None, Some("NXWM")},
     dry_run : BOOLEAN,
     force : BOOLEAN]

\* Positions of two operators' vehicles.
CleanupReports ==
    {ConfiguredReport("BUS_1", t) : t \in RecordedTimes}
    \cup {[ConfiguredReport("BUS_2", 1) EXCEPT !.operator_ref = Some("NXWM")]}

NextCleanup ==
    \/ \E user \in Users, v \in VehicleRefs : start_tracking(user, ConfiguredStart(v))
    \/ \E data \in CleanupReports : submit_vehicle_position(data, TRUE)
    \/ \E options \in CleanupOptions, confirm \in {"yes", "YES", "no"},
          failing \in {"", "positions", "sessions"} :
          cleanup_tracks(options, confirm, failing)
    \/ TickDashboard
    \/ Reply

SpecCleanup == Init /\ [][NextCleanup]_vars

(* C30: cleanup_tracks deletes nothing with --dry-run, and nothing without   *)
(* --force when the answer at the prompt is not yes; when it deletes, it     *)
(* removes only positions with recorded_at_time, and sessions with           *)
(* start_time, before the cut-off that match the --vehicle and --operator    *)
(* filters, and leaves every other row as it was.  A session matches an      *)
(* operator when a position of its vehicle is that operator's.               *)
C30_CleanupDeletesOnlyMatchingRows ==
    [][(request.op = "none" /\ request'.op = "cleanup_tracks") =>
        LET o == request'.options
            cutoff == request'.at - o.days * MINUTES_PER_DAY
            Unprompted == o.force \/ lower(request'.confirm) = "yes"
        IN  /\ vehicle_positions' \subseteq vehicle_positions
            /\ tracking_sessions' \subseteq tracking_sessions
            /\ (o.dry_run \/ ~Unprompted) =>
                  /\ vehicle_positions' = vehicle_positions
                  /\ tracking_sessions' = tracking_sessions
            /\ \A r \in vehicle_positions \ vehicle_positions' :
                  /\ r.recorded_at_time < cutoff
                  /\ TruthyStr(o.vehicle) => r.vehicle_ref = o.vehicle[1]
                  /\ TruthyStr(o.operator) => r.operator_ref = o.operator[1]
            /\ \A x \in tracking_sessions \ tracking_sessions' :
                  /\ x.start_time < cutoff
                  /\ TruthyStr(o.vehicle) => x.vehicle_ref = o.vehicle[1]
                  /\ TruthyStr(o.operator) =>
                        \E r \in vehicle_positions :
                            /\ r.vehicle_ref = x.vehicle_ref
                            /\ r.operator_ref = o.operator[1]]_vars

=============================================================================
